---- MODULE Spec2Model ----
(***************************************************************************)
(* A model of the wealth_plus personal-finance application: the login      *)
(* lockout state machine, the registration OTP flow, the ownership scoped  *)
(* ledger/category endpoints, the dashboard aggregation, the CSV export,   *)
(* account deletion and the password reset.  Every request handler is one  *)
(* action; the database tables are the variables.  A handler that overlaps *)
(* others is two actions, split at the await of its database write.        *)
(*                                                                         *)
(* Time is counted in minutes.  Timestamps the database fills in by        *)
(* default are left out of the rows (LoginAttempt.createdAt,               *)
(* entry.createdAt); where a handler orders or prints entries by their     *)
(* creation instant, the id of the entry stands for it.  Amounts are       *)
(* IEEE-754 doubles, computed digit by digit.                              *)
(***************************************************************************)
EXTENDS Integers, Sequences, FiniteSets, TLC

VARIABLES
    now,                 \* wall clock, minutes
    users,               \* User table: id -> row
    nextUserId,          \* next fresh User id
    sessions,            \* user ids a JWT was issued for
    loginAttempts,       \* LoginAttempt table, in insertion order
    emailVerifications,  \* EmailVerification table: id -> row
    nextVerificationId,  \* next fresh EmailVerification id
    outbox,              \* number of OTP mails handed to the mail provider
    incomeSources,       \* IncomeSource table: id -> row
    expenseVerticals,    \* ExpenseVertical table: id -> row
    savingsInstruments,  \* SavingsInstrument table: id -> row
    incomeEntries,       \* IncomeEntry table: id -> row
    expenseEntries,      \* ExpenseEntry table: id -> row
    savingsEntries,      \* SavingsEntry table: id -> row
    nextId,              \* next fresh ledger/category id
    inflight,            \* ledger requests between their checks and their write
    last                 \* the last request and its response

authVars == <<users, nextUserId, sessions, loginAttempts>>
otpVars == <<emailVerifications, nextVerificationId, outbox>>
ledgerVars == <<incomeSources, expenseVerticals, savingsInstruments,
                incomeEntries, expenseEntries, savingsEntries, nextId, inflight>>
vars == <<now, authVars, otpVars, ledgerVars, last>>

-----------------------------------------------------------------------------
(* Bounds of the model *)

TickMinutes == 5
MaxTimeAuth == 20
MaxLoginRows == 6
MaxTimeOtp == 20
TickMinutesOtp == 10
MaxVerifications == 4
MaxUsers == 2
MaxLoginsEmails == 2
MaxIds == 3
MaxInflight == 1
MaxKinds == 1

(* Program constants *)

MAX_LOGIN_ATTEMPTS == 5
LOCKOUT_DURATION_MINUTES == 15
OTP_EXPIRY_MINUTES == 10
MAX_REQUESTS_PER_HOUR == 3
MAX_ATTEMPTS == 5
HourMinutes == 60

\* SQL NULL of a nullable column; an absent session or argument
NULL == -1

-----------------------------------------------------------------------------
(* Strings, hashes, responses *)

\* String.prototype.toLowerCase on the addresses and answers the model uses
toLowerCase(s) ==
    CASE s = "A@x.io" -> "a@x.io"
      [] s = "B@x.io" -> "b@x.io"
      [] s = "Blue " -> "blue "
      [] OTHER -> s

\* String.prototype.trim on the answers the model uses
trim(s) ==
    CASE s = "blue " -> "blue"
      [] s = "Blue " -> "Blue"
      [] OTHER -> s

\* bcryptjs hash / compare: compare(p, h) holds exactly for h a hash of p
hash(p) == <<"bcrypt", p>>

\* A comparison that accepts every secret
compare_any(p, h) == TRUE

compare(p, h) == h = hash(p)

Resp(op, user, email, secret, id, status, msg, body) ==
    [op |-> op, user |-> user, email |-> email, secret |-> secret, id |-> id,
     status |-> status, msg |-> msg, body |-> body, count |-> NULL]

\* A response that carries a number (remainingAttempts, a reference count)
WithCount(r, n) == [r EXCEPT !.count = n]

\* The rows of table t that satisfy p, and the row ids
Ids(t) == DOMAIN t

Insert(t, id, row) == [i \in Ids(t) \cup {id} |-> IF i = id THEN row ELSE t[i]]

Remove(t, gone) == [i \in Ids(t) \ gone |-> t[i]]

EmptyTable == [i \in {} |-> 0]

\* prisma.user.findUnique({ where: { email } }): the id, or NULL
findUserByEmail(us, email) ==
    IF \E u \in Ids(us) : us[u].email = email
    THEN CHOOSE u \in Ids(us) : us[u].email = email
    ELSE NULL

NewUser(email, password, securityAnswer) ==
    [email |-> email, password |-> hash(password),
     securityQuestion |-> "colour",
     securityAnswer |-> hash(trim(toLowerCase(securityAnswer))),
     failedLoginAttempts |-> 0, lockedUntil |-> NULL, lastLoginAt |-> NULL]

-----------------------------------------------------------------------------
(* Login: lib/auth *)

\* Mutant: only failures are logged
logLoginAttempt_failuresOnly(log, email, userId, success, reason) ==
    IF success THEN log
    ELSE Append(log, [email |-> toLowerCase(email), userId |-> userId,
                      success |-> success, reason |-> reason])

logLoginAttempt(log, email, userId, success, reason) ==
    Append(log, [email |-> toLowerCase(email), userId |-> userId,
                 success |-> success, reason |-> reason])

\* Mutant: the lockout comparison reversed
checkAccountLockout_reversed(us, email, t) ==
    LET u == findUserByEmail(us, toLowerCase(email))
    IN  IF u = NULL THEN FALSE
        ELSE us[u].lockedUntil # NULL /\ us[u].lockedUntil < t

checkAccountLockout(us, email, t) ==
    LET u == findUserByEmail(us, toLowerCase(email))
    IN  IF u = NULL THEN FALSE
        ELSE us[u].lockedUntil # NULL /\ us[u].lockedUntil > t

\* Mutant: locks one attempt late (> instead of >=)
handleFailedLogin_late(us, userId, t) ==
    IF userId = NULL \/ userId \notin Ids(us) THEN us
    ELSE LET newAttempts == us[userId].failedLoginAttempts + 1
             shouldLock == newAttempts > MAX_LOGIN_ATTEMPTS
         IN  [us EXCEPT ![userId].failedLoginAttempts = newAttempts,
                        ![userId].lockedUntil =
                            IF shouldLock THEN t + LOCKOUT_DURATION_MINUTES ELSE NULL]

\* Mutant: an increment made by the database, of the counter as it is stored
updateFailedLogin_increment(us, userId, failedLoginAttempts, t) ==
    LET newAttempts == us[userId].failedLoginAttempts + 1
        shouldLock == newAttempts >= MAX_LOGIN_ATTEMPTS
    IN  [us EXCEPT ![userId].failedLoginAttempts = newAttempts,
                   ![userId].lockedUntil =
                       IF shouldLock THEN t + LOCKOUT_DURATION_MINUTES ELSE NULL]

\* handleFailedLogin after its read: the update, from the counter it read
updateFailedLogin(us, userId, failedLoginAttempts, t) ==
    LET newAttempts == failedLoginAttempts + 1
        shouldLock == newAttempts >= MAX_LOGIN_ATTEMPTS
    IN  [us EXCEPT ![userId].failedLoginAttempts = newAttempts,
                   ![userId].lockedUntil =
                       IF shouldLock THEN t + LOCKOUT_DURATION_MINUTES ELSE NULL]

handleFailedLogin(us, userId, t) ==
    IF userId = NULL \/ userId \notin Ids(us) THEN us
    ELSE updateFailedLogin(us, userId, us[userId].failedLoginAttempts, t)

\* Mutant: resets the failure counter but keeps the lock
handleSuccessfulLogin_keepsLock(us, userId, t) ==
    [us EXCEPT ![userId].failedLoginAttempts = 0,
               ![userId].lastLoginAt = t]

\* Mutant: records the login time but keeps the failure counter
handleSuccessfulLogin_keepsCounter(us, userId, t) ==
    [us EXCEPT ![userId].lockedUntil = NULL,
               ![userId].lastLoginAt = t]

handleSuccessfulLogin(us, userId, t) ==
    [us EXCEPT ![userId].failedLoginAttempts = 0,
               ![userId].lockedUntil = NULL,
               ![userId].lastLoginAt = t]

AuthEmails == {"", "a@x.io", "A@x.io", "b@x.io"}

AuthPasswords == {"", "pw1", "bad"}

authorize(e, p) ==
    LET email == toLowerCase(e)
        user == findUserByEmail(users, email)
        R(msg, sess) == Resp("authorize", sess, e, p, NULL, 0, msg, EmptyTable)
    IN  /\ Len(loginAttempts) < MaxLoginRows
        /\ IF e = "" \/ p = ""
           THEN /\ last' = R("Email and password are required", NULL)
                /\ UNCHANGED <<users, loginAttempts, sessions>>
           ELSE IF checkAccountLockout(users, email, now)
           THEN /\ loginAttempts' =
                      logLoginAttempt(loginAttempts, email, NULL, FALSE, "account_locked")
                /\ last' = R("Account is temporarily locked", NULL)
                /\ UNCHANGED <<users, sessions>>
           ELSE IF user = NULL
           THEN /\ loginAttempts' =
                      logLoginAttempt(loginAttempts, email, NULL, FALSE, "invalid_email")
                /\ last' = R("Invalid email or password", NULL)
                /\ UNCHANGED <<users, sessions>>
           ELSE IF ~compare(p, users[user].password)
           THEN /\ users' = handleFailedLogin(users, user, now)
                /\ loginAttempts' =
                      logLoginAttempt(loginAttempts, email, user, FALSE, "invalid_password")
                /\ last' = IF checkAccountLockout(users', email, now)
                           THEN R("Too many failed attempts. Account locked", NULL)
                           ELSE R("Invalid email or password", NULL)
                /\ UNCHANGED sessions
           ELSE /\ users' = handleSuccessfulLogin(users, user, now)
                /\ loginAttempts' =
                      logLoginAttempt(loginAttempts, email, user, TRUE, "success")
                /\ sessions' = sessions \cup {user}
                /\ last' = R("ok", user)
        /\ UNCHANGED <<now, nextUserId, otpVars, ledgerVars>>

Authorize == \E e \in AuthEmails, p \in AuthPasswords : authorize(e, p)

TickAuth ==
    /\ now + TickMinutes <= MaxTimeAuth
    /\ now' = now + TickMinutes
    /\ UNCHANGED <<authVars, otpVars, ledgerVars, last>>

NoRequest == Resp("none", NULL, "", "", NULL, 0, "", EmptyTable)

\* One registered account ("a@x.io", password "pw1") that never logged in
InitAuth ==
    /\ now = 0
    /\ users = Insert(EmptyTable, 1, NewUser("a@x.io", "pw1", "blue"))
    /\ nextUserId = 2
    /\ sessions = {}
    /\ loginAttempts = <<>>
    /\ emailVerifications = EmptyTable
    /\ nextVerificationId = 1
    /\ outbox = 0
    /\ incomeSources = EmptyTable
    /\ expenseVerticals = EmptyTable
    /\ savingsInstruments = EmptyTable
    /\ incomeEntries = EmptyTable
    /\ expenseEntries = EmptyTable
    /\ savingsEntries = EmptyTable
    /\ nextId = 1
    /\ inflight = {}
    /\ last = NoRequest

NextAuth == Authorize \/ TickAuth

SpecAuth == InitAuth /\ [][NextAuth]_vars

-----------------------------------------------------------------------------
(* Registration OTP: api/auth/otp/send, api/auth/otp/verify, api/auth/register *)

\* z.string().email(): the one malformed address of the model is "bad"
isEmail(s) == s \notin {"", "bad"}

\* String.length on the codes the model uses
StrLen(s) == IF s = "123" THEN 3 ELSE 6

\* Values generateOTP() returns
Otps == {"111111"}

\* Codes a caller submits: the right one, a wrong one, a malformed one
OtpInputs == Otps \cup {"222222", "123"}

OtpEmails == {"bad", "A@x.io"}

RowsFor(ev, email) == {r \in Ids(ev) : ev[r].email = email}

PendingFor(ev, email) == {r \in RowsFor(ev, email) : ~ev[r].verified}

VerifiedFor(ev, email) == {r \in RowsFor(ev, email) : ev[r].verified}

\* findFirst(... orderBy: { createdAt: 'desc' }): the rows it may return
Latest(ev, S) == {r \in S : \A q \in S : ev[q].createdAt <= ev[r].createdAt}

\* prisma.emailVerification.count({ email, createdAt: { gte: oneHourAgo } })
recentRequests(ev, email, t) ==
    Cardinality({r \in RowsFor(ev, email) : ev[r].createdAt >= t - HourMinutes})

\* verification.expiresAt < new Date()
otpExpired(verification, t) == verification.expiresAt < t

\* Mutant: the attempt limit is never reached
attemptsExhausted_never(verification) == FALSE

\* verification.attempts >= MAX_ATTEMPTS
attemptsExhausted(verification) == verification.attempts >= MAX_ATTEMPTS

sendOtp(e, otp, emailSent) ==
    LET normalizedEmail == toLowerCase(e)
        R(status, msg) == Resp("otp/send", NULL, e, "", NULL, status, msg, EmptyTable)
        kept == Remove(emailVerifications, PendingFor(emailVerifications, normalizedEmail))
        row == [email |-> normalizedEmail, otp |-> otp,
                expiresAt |-> now + OTP_EXPIRY_MINUTES,
                verified |-> FALSE, attempts |-> 0, createdAt |-> now]
    IN  /\ IF ~isEmail(e)
           THEN /\ last' = R(400, "Invalid email address")
                /\ UNCHANGED otpVars
           ELSE IF findUserByEmail(users, normalizedEmail) # NULL
           THEN /\ last' = R(400, "This email is already registered")
                /\ UNCHANGED otpVars
           ELSE IF recentRequests(emailVerifications, normalizedEmail, now)
                       >= MAX_REQUESTS_PER_HOUR
           THEN /\ last' = R(429, "Too many OTP requests")
                /\ UNCHANGED otpVars
           ELSE /\ nextVerificationId <= MaxVerifications
                /\ emailVerifications' = Insert(kept, nextVerificationId, row)
                /\ nextVerificationId' = nextVerificationId + 1
                /\ IF emailSent
                   THEN /\ outbox' = outbox + 1
                        /\ last' = WithCount(R(200, "Verification code sent"),
                                             OTP_EXPIRY_MINUTES * 60)
                   ELSE /\ outbox' = outbox
                        /\ last' = R(500, "Failed to send verification email")
        /\ UNCHANGED <<now, authVars, ledgerVars>>

SendOtp == \E e \in OtpEmails, otp \in Otps, emailSent \in BOOLEAN : sendOtp(e, otp, emailSent)

verifyOtp(e, otp) ==
    LET normalizedEmail == toLowerCase(e)
        R(status, msg) == Resp("otp/verify", NULL, e, otp, NULL, status, msg, EmptyTable)
        pending == PendingFor(emailVerifications, normalizedEmail)
    IN  /\ IF ~isEmail(e)
           THEN /\ last' = R(400, "Invalid email address")
                /\ UNCHANGED emailVerifications
           ELSE IF StrLen(otp) # 6
           THEN /\ last' = R(400, "OTP must be 6 digits")
                /\ UNCHANGED emailVerifications
           ELSE IF pending = {}
           THEN /\ last' = R(400, "No pending verification found")
                /\ UNCHANGED emailVerifications
           ELSE \E v \in Latest(emailVerifications, pending) :
                LET verification == emailVerifications[v]
                IN  IF otpExpired(verification, now)
                    THEN /\ emailVerifications' = Remove(emailVerifications, {v})
                         /\ last' = R(400, "Verification code has expired")
                    ELSE IF attemptsExhausted(verification)
                    THEN /\ emailVerifications' = Remove(emailVerifications, {v})
                         /\ last' = R(400, "Too many failed attempts")
                    ELSE IF verification.otp # otp
                    THEN /\ emailVerifications' =
                              [emailVerifications EXCEPT ![v].attempts = @ + 1]
                         /\ last' = WithCount(
                              R(400, "Invalid verification code"),
                              MAX_ATTEMPTS - verification.attempts - 1)
                    ELSE /\ emailVerifications' =
                              [emailVerifications EXCEPT ![v].verified = TRUE]
                         /\ last' = R(200, "Email verified successfully")
        /\ UNCHANGED <<now, authVars, nextVerificationId, outbox, ledgerVars>>

VerifyOtp == \E e \in OtpEmails, otp \in OtpInputs : verifyOtp(e, otp)

\* api/auth/register: the handler that requires a verified email
register(e, password, securityAnswer) ==
    LET normalizedEmail == toLowerCase(e)
        R(status, msg) == Resp("register", NULL, e, password, NULL, status, msg, EmptyTable)
    IN  /\ IF ~isEmail(e)
           THEN /\ last' = R(400, "Invalid email address")
                /\ UNCHANGED <<users, nextUserId, emailVerifications>>
           ELSE IF VerifiedFor(emailVerifications, normalizedEmail) = {}
           THEN /\ last' = R(400, "Please verify your email first")
                /\ UNCHANGED <<users, nextUserId, emailVerifications>>
           ELSE IF findUserByEmail(users, normalizedEmail) # NULL
           THEN /\ last' = R(400, "User with this email already exists")
                /\ UNCHANGED <<users, nextUserId, emailVerifications>>
           ELSE /\ nextUserId <= MaxUsers
                /\ users' = Insert(users, nextUserId,
                                   NewUser(normalizedEmail, password, securityAnswer))
                /\ nextUserId' = nextUserId + 1
                /\ emailVerifications' =
                       Remove(emailVerifications, RowsFor(emailVerifications, normalizedEmail))
                /\ last' = [R(201, "User created successfully") EXCEPT !.id = nextUserId]
        /\ UNCHANGED <<now, sessions, loginAttempts, nextVerificationId, outbox, ledgerVars>>

Register == \E e \in OtpEmails : register(e, "pw1", "blue")

defaultIncomeSources ==
    <<"Salary", "Freelance", "Business", "Interest", "Dividends", "Rental", "Other">>

defaultExpenseVerticals ==
    <<"Rent/Home", "Groceries", "Eating Out", "Travel", "Utilities", "Subscriptions",
      "Shopping", "Health", "Insurance", "Family", "EMI/Debt", "Misc">>

\* prisma.<category>.createMany of the default names for a new user
createManyDefaults(t, first, names, userId) ==
    [i \in Ids(t) \cup (first..(first + Len(names) - 1)) |->
        IF i \in Ids(t) THEN t[i]
        ELSE [name |-> names[i - first + 1], userId |-> userId, isDefault |-> TRUE]]

\* The second register handler of the repository: no OTP check, the email
\* stored as given, default categories seeded
registerWithDefaults(e, password, securityAnswer) ==
    LET R(status, msg) == Resp("register-defaults", NULL, e, password, NULL, status, msg, EmptyTable)
    IN  /\ IF ~isEmail(e)
           THEN /\ last' = R(400, "Invalid email address")
                /\ UNCHANGED <<users, nextUserId, incomeSources, expenseVerticals, nextId>>
           ELSE IF findUserByEmail(users, e) # NULL
           THEN /\ last' = R(400, "User with this email already exists")
                /\ UNCHANGED <<users, nextUserId, incomeSources, expenseVerticals, nextId>>
           ELSE /\ nextUserId <= MaxUsers
                /\ users' = Insert(users, nextUserId, NewUser(e, password, securityAnswer))
                /\ nextUserId' = nextUserId + 1
                /\ incomeSources' =
                       createManyDefaults(incomeSources, nextId, defaultIncomeSources, nextUserId)
                /\ expenseVerticals' =
                       createManyDefaults(expenseVerticals, nextId + Len(defaultIncomeSources),
                                          defaultExpenseVerticals, nextUserId)
                /\ nextId' = nextId + Len(defaultIncomeSources) + Len(defaultExpenseVerticals)
                /\ last' = [R(201, "User created successfully") EXCEPT !.id = nextUserId]
        /\ UNCHANGED <<now, sessions, loginAttempts, otpVars, savingsInstruments,
                       incomeEntries, expenseEntries, savingsEntries, inflight>>

RegisterWithDefaults == \E e \in OtpEmails : registerWithDefaults(e, "pw1", "blue")

TickOtp ==
    /\ now + TickMinutesOtp <= MaxTimeOtp
    /\ now' = now + TickMinutesOtp
    /\ UNCHANGED <<authVars, otpVars, ledgerVars, last>>

\* A fresh deployment: no account, no pending verification
InitOtp ==
    /\ now = 0
    /\ users = EmptyTable
    /\ nextUserId = 1
    /\ sessions = {}
    /\ loginAttempts = <<>>
    /\ emailVerifications = EmptyTable
    /\ nextVerificationId = 1
    /\ outbox = 0
    /\ incomeSources = EmptyTable
    /\ expenseVerticals = EmptyTable
    /\ savingsInstruments = EmptyTable
    /\ incomeEntries = EmptyTable
    /\ expenseEntries = EmptyTable
    /\ savingsEntries = EmptyTable
    /\ nextId = 1
    /\ inflight = {}
    /\ last = NoRequest

\* The OTP flow over time: send, verify, the gated registration
NextOtp == SendOtp \/ VerifyOtp \/ Register \/ TickOtp

SpecOtp == InitOtp /\ [][NextOtp]_vars

\* Account creation through either register handler, the clock standing still
NextRegister == SendOtp \/ VerifyOtp \/ Register \/ RegisterWithDefaults

SpecRegister == InitOtp /\ [][NextRegister]_vars

-----------------------------------------------------------------------------
(* Claims about login and lockout (SpecAuth) *)

\* Index of the last successful login of email in the audit log, 0 if none
LastSuccess(log, email) ==
    LET S == {i \in 1..Len(log) : log[i].email = email /\ log[i].success}
    IN  IF S = {} THEN 0 ELSE CHOOSE i \in S : \A j \in S : j <= i

\* Wrong-password attempts for email recorded since its last successful login
WrongStreak(log, email) ==
    Cardinality({i \in (LastSuccess(log, email) + 1)..Len(log) :
                    log[i].email = email /\ log[i].reason = "invalid_password"})

\* A step that is a call of authorize with raw email e
AuthorizeStep(e) ==
    /\ now' = now
    /\ last'.op = "authorize"
    /\ last'.email = e
    /\ <<users, sessions, loginAttempts, last>>' # <<users, sessions, loginAttempts, last>>

\* The row a step appended to the audit log, if it appended one
Logged(reason) ==
    /\ Len(loginAttempts') = Len(loginAttempts) + 1
    /\ loginAttempts'[Len(loginAttempts')].reason = reason

LockedAt(us, email, t) ==
    \E u \in Ids(us) :
        us[u].email = email /\ us[u].lockedUntil # NULL /\ us[u].lockedUntil > t

\* C1: with requests handled one at a time, the failure counter of an account
\* equals the number of wrong-password attempts since its last successful
\* login, lockedUntil is unset while that number is below five, and the fifth
\* consecutive failure sets lockedUntil to now + 15 minutes, a future time.
C1_FiveFailuresLock ==
    /\ [](\A u \in Ids(users) :
            LET s == WrongStreak(loginAttempts, users[u].email)
            IN  /\ users[u].failedLoginAttempts = s
                /\ (s < 5 => users[u].lockedUntil = NULL)
                /\ (s >= 5 => users[u].lockedUntil # NULL))
    /\ [][\A u \in Ids(users) :
            (/\ WrongStreak(loginAttempts, users[u].email) = 4
             /\ WrongStreak(loginAttempts', users[u].email) = 5)
            => /\ users'[u].lockedUntil = now + 15
               /\ users'[u].lockedUntil > now']_vars

C1_Witness ==
    \E u \in Ids(users) :
        /\ WrongStreak(loginAttempts, users[u].email) = 5
        /\ users[u].failedLoginAttempts = 5
        /\ users[u].lockedUntil = now + 15
        /\ last.msg = "Too many failed attempts. Account locked"

C3_SuccessResets ==
    [][\A e \in AuthEmails :
        (AuthorizeStep(e) /\ (last'.user # NULL \/ Logged("success")))
        => /\ last'.user \in Ids(users')
           /\ Logged("success")
           /\ loginAttempts'[Len(loginAttempts')].userId = last'.user
           /\ users'[last'.user].email = toLowerCase(e)
           /\ users'[last'.user].failedLoginAttempts = 0
           /\ users'[last'.user].lockedUntil = NULL]_vars

\* Five wrong passwords, the lockout elapsed, then a successful login
C3_Witness ==
    /\ Len(loginAttempts) = 6
    /\ \A i \in 1..5 : loginAttempts[i].reason = "invalid_password"
    /\ loginAttempts[6].reason = "success"
    /\ last.user # NULL
    /\ users[last.user].failedLoginAttempts = 0
    /\ users[last.user].lockedUntil = NULL

\* A lockout that has elapsed: lockedUntil is set and no longer in the future
ElapsedLock(us, u, t) == us[u].lockedUntil # NULL /\ us[u].lockedUntil <= t

\* C4 as written: once the lockout has elapsed the account is active again:
\* the correct password is accepted and a further wrong password (fewer than
\* five of them) does not lock the account again.
C4_ActiveAfterElapse ==
    [][\A u \in Ids(users) :
        (/\ ElapsedLock(users, u, now)
         /\ AuthorizeStep(users[u].email)
         /\ last'.secret # "")
        => IF compare(last'.secret, users[u].password)
           THEN last'.user = u
           ELSE users'[u].lockedUntil = NULL]_vars

-----------------------------------------------------------------------------
(* Claims about the registration OTP (SpecOtp, SpecRegister) *)

\* A step that is a call of otp/verify
VerifyStep ==
    /\ now' = now
    /\ last'.op = "otp/verify"
    /\ <<emailVerifications, last>>' # <<emailVerifications, last>>

\* Row v is the live code a verify call for last'.email is compared with
LiveCode(v) ==
    /\ v \in Ids(emailVerifications)
    /\ ~emailVerifications[v].verified
    /\ emailVerifications[v].email = toLowerCase(last'.email)
    /\ emailVerifications[v].attempts < 5
    /\ emailVerifications[v].expiresAt >= now

\* C5: a code expires 10 minutes after it was issued; each verify call with a
\* wrong (six-character) code against a live code raises its attempts by one
\* and reports one attempt less remaining; a code that has had 5 wrong
\* attempts or is past its expiry never becomes verified, whatever code is
\* supplied: a row becomes verified only by a verify call that supplies its
\* code while it has fewer than 5 attempts and has not expired.
C5_OtpAttemptsAndExpiry ==
    /\ [](\A v \in Ids(emailVerifications) :
            /\ emailVerifications[v].expiresAt = emailVerifications[v].createdAt + 10
            /\ emailVerifications[v].attempts <= 5)
    /\ [][\A v \in Ids(emailVerifications) :
            /\ (/\ VerifyStep
                /\ LiveCode(v)
                /\ StrLen(last'.secret) = 6
                /\ last'.secret # emailVerifications[v].otp)
               => /\ v \in Ids(emailVerifications')
                  /\ emailVerifications'[v].attempts = emailVerifications[v].attempts + 1
                  /\ ~emailVerifications'[v].verified
                  /\ last'.status = 400
                  /\ last'.count = (5 - emailVerifications[v].attempts) - 1
            /\ (/\ ~emailVerifications[v].verified
                /\ \/ emailVerifications[v].attempts >= 5
                   \/ emailVerifications[v].expiresAt < now)
               => (v \in Ids(emailVerifications') => ~emailVerifications'[v].verified)
            /\ (/\ ~emailVerifications[v].verified
                /\ v \in Ids(emailVerifications')
                /\ emailVerifications'[v].verified)
               => /\ VerifyStep
                  /\ LiveCode(v)
                  /\ last'.secret = emailVerifications[v].otp
                  /\ last'.status = 200]_vars
    /\ [][\A v \in Ids(emailVerifications') \ Ids(emailVerifications) :
            ~emailVerifications'[v].verified /\ emailVerifications'[v].attempts = 0]_vars

\* The right code was just refused because five wrong ones came before it
C5_Witness ==
    /\ last.op = "otp/verify"
    /\ last.secret \in Otps
    /\ last.status = 400
    /\ last.msg = "Too many failed attempts"
    /\ RowsFor(emailVerifications, toLowerCase(last.email)) = {}

\* C6: at most 3 OTP sends for one address are accepted within an hour, so
\* (the model having one valid address) at most 3 codes have been mailed
\* while less than an hour has passed.
C6_AtMostThreeSends ==
    now < 60 => outbox <= 3

\* C7: registration creates a user only when a verified EmailVerification row
\* exists for the lower-cased email, and afterwards no EmailVerification row
\* for that email is left.
C7_VerifiedBeforeCreate ==
    [][\A u \in Ids(users') \ Ids(users) :
        LET email == toLowerCase(users'[u].email)
        IN  /\ VerifiedFor(emailVerifications, email) # {}
            /\ RowsFor(emailVerifications', email) = {}]_vars

-----------------------------------------------------------------------------
(* Strings and numbers: lib/validations, lib/utils *)

\* An optional string that is absent from a request; a column left NULL
undefined == "undefined"

\* The characters of a string, for the strings that are matched, split or
\* built character by character
chars(str) ==
    CASE str = "" -> <<>>
      [] str = "2023-12" -> <<"2", "0", "2", "3", "-", "1", "2">>
      [] str = "2024-01" -> <<"2", "0", "2", "4", "-", "0", "1">>
      [] str = "2024-02" -> <<"2", "0", "2", "4", "-", "0", "2">>
      [] str = "2024-13" -> <<"2", "0", "2", "4", "-", "1", "3">>
      [] str = "0999-12" -> <<"0", "9", "9", "9", "-", "1", "2">>
      [] str = "999-12" -> <<"9", "9", "9", "-", "1", "2">>
      [] str = "Month" -> <<"M", "o", "n", "t", "h">>
      [] str = "Source" -> <<"S", "o", "u", "r", "c", "e">>
      [] str = "Amount" -> <<"A", "m", "o", "u", "n", "t">>
      [] str = "Notes" -> <<"N", "o", "t", "e", "s">>
      [] str = "Created At" ->
           <<"C", "r", "e", "a", "t", "e", "d", " ", "A", "t">>
      [] str = "Vertical" -> <<"V", "e", "r", "t", "i", "c", "a", "l">>
      [] str = "Category" -> <<"C", "a", "t", "e", "g", "o", "r", "y">>
      [] str = "Instrument" ->
           <<"I", "n", "s", "t", "r", "u", "m", "e", "n", "t">>
      [] str = "Metric" -> <<"M", "e", "t", "r", "i", "c">>
      [] str = "Value" -> <<"V", "a", "l", "u", "e">>
      [] str = "Total Income" ->
           <<"T", "o", "t", "a", "l", " ", "I", "n", "c", "o", "m", "e">>
      [] str = "Total Expenses" ->
           <<"T", "o", "t", "a", "l", " ", "E", "x", "p", "e", "n", "s", "e", "s">>
      [] str = "Total Savings" ->
           <<"T", "o", "t", "a", "l", " ", "S", "a", "v", "i", "n", "g", "s">>
      [] str = "Net Cash Flow" ->
           <<"N", "e", "t", " ", "C", "a", "s", "h", " ", "F", "l", "o", "w">>
      [] str = "Savings Rate (%)" ->
           <<"S", "a", "v", "i", "n", "g", "s", " ", "R", "a", "t", "e", " ", "(", "%", ")">>
      [] str = "Expense Ratio (%)" ->
           <<"E", "x", "p", "e", "n", "s", "e", " ", "R", "a", "t", "i", "o", " ", "(", "%", ")">>
      [] str = "Income Breakdown" ->
           <<"I", "n", "c", "o", "m", "e", " ", "B", "r", "e", "a", "k", "d", "o", "w", "n">>
      [] str = "Expense Breakdown" ->
           <<"E", "x", "p", "e", "n", "s", "e", " ", "B", "r", "e", "a", "k", "d", "o", "w", "n">>
      [] str = "Savings Breakdown" ->
           <<"S", "a", "v", "i", "n", "g", "s", " ", "B", "r", "e", "a", "k", "d", "o", "w", "n">>
      [] str = "Salary" -> <<"S", "a", "l", "a", "r", "y">>
      [] str = "Rent" -> <<"R", "e", "n", "t">>
      [] str = "PPF" -> <<"P", "P", "F">>
      [] str = "Nifty" -> <<"N", "i", "f", "t", "y">>
      [] str = "Bank Deposits" ->
           <<"B", "a", "n", "k", " ", "D", "e", "p", "o", "s", "i", "t", "s">>
      [] str = "Retirement & Tax" ->
           <<"R", "e", "t", "i", "r", "e", "m", "e", "n", "t", " ", "&", " ", "T", "a", "x">>
      [] str = "Equities" -> <<"E", "q", "u", "i", "t", "i", "e", "s">>
      [] str = "Mutual Funds" ->
           <<"M", "u", "t", "u", "a", "l", " ", "F", "u", "n", "d", "s">>

\* The month strings, and the string of a sequence of characters
Strings == {"", "2023-12", "2024-01", "2024-02", "2024-13", "0999-12", "999-12"}

string(cs) == CHOOSE str \in Strings : chars(str) = cs

Digits == {"0", "1", "2", "3", "4", "5", "6", "7", "8", "9"}

\* monthSchema: /^\d{4}-(0[1-9]|1[0-2])$/
monthSchema(month) ==
    LET cs == chars(month)
    IN  /\ Len(cs) = 7
        /\ \A i \in 1..4 : cs[i] \in Digits
        /\ cs[5] = "-"
        /\ \/ cs[6] = "0" /\ cs[7] \in Digits \ {"0"}
           \/ cs[6] = "1" /\ cs[7] \in {"0", "1", "2"}

\* A JSON number, written as the decimal d * 10^x it is sent and stored as
Dec(d, x) == [d |-> d, x |-> x]

\* A number that is absent from a request
undefinedNumber == [undefined |-> TRUE]

RECURSIVE Pow10(_)
Pow10(n) == IF n = 0 THEN 1 ELSE 10 * Pow10(n - 1)

\* n <= 999999999999, for d below 2^31 (so below 10^10)
atMost999999999999(n) ==
    \/ n.d <= 0
    \/ n.x <= 2
    \/ n.x <= 12 /\ n.d < Pow10(12 - n.x)

\* Mutant: zero passes for a positive amount
amountSchema_nonNegative(amount) ==
    IF amount.d < 0 THEN "Amount must be greater than 0"
    ELSE IF ~atMost999999999999(amount) THEN "Amount is too large"
    ELSE ""

\* amountSchema: z.number().positive().max(999999999999), the first error
\* message, "" when the amount is valid
amountSchema(amount) ==
    IF amount.d <= 0 THEN "Amount must be greater than 0"
    ELSE IF ~atMost999999999999(amount) THEN "Amount is too large"
    ELSE ""

-----------------------------------------------------------------------------
(* Numbers: the IEEE-754 double of JavaScript.  The operations are functions, *)
(* so that each is applied to the values of its arguments.                  *)

\* A natural number of any size: its digits in base 2^15, the lowest first,
\* the highest not 0
Base == 2^15

RECURSIVE BitLenSmall(_)
BitLenSmall(n) == IF n = 0 THEN 0 ELSE 1 + BitLenSmall(n \div 2)

LimbBits == BitLenSmall(Base - 1)

Bigs == Seq(Nat)

RECURSIVE Big(_)
Big(n) == IF n = 0 THEN <<>> ELSE <<n % Base>> \o Big(n \div Base)

Trim[a \in Bigs] ==
    IF a # <<>> /\ a[Len(a)] = 0 THEN Trim[SubSeq(a, 1, Len(a) - 1)] ELSE a

Limb(a, i) == IF i <= Len(a) THEN a[i] ELSE 0

AddFrom[a \in Bigs, b \in Bigs, i \in Nat, carry \in Nat] ==
    IF i > Len(a) /\ i > Len(b) THEN Big(carry)
    ELSE <<(Limb(a, i) + Limb(b, i) + carry) % Base>>
         \o AddFrom[a, b, i + 1, (Limb(a, i) + Limb(b, i) + carry) \div Base]

BigAdd[a \in Bigs, b \in Bigs] == AddFrom[a, b, 1, 0]

SubFrom[a \in Bigs, b \in Bigs, i \in Nat, borrow \in Nat] ==
    IF i > Len(a) THEN <<>>
    ELSE IF Limb(a, i) - Limb(b, i) - borrow < 0
    THEN <<Limb(a, i) - Limb(b, i) - borrow + Base>> \o SubFrom[a, b, i + 1, 1]
    ELSE <<Limb(a, i) - Limb(b, i) - borrow>> \o SubFrom[a, b, i + 1, 0]

\* a - b, for a >= b
BigSub[a \in Bigs, b \in Bigs] == Trim[SubFrom[a, b, 1, 0]]

CmpFrom[a \in Bigs, b \in Bigs, i \in Nat] ==
    IF i = 0 THEN 0
    ELSE IF a[i] # b[i] THEN (IF a[i] < b[i] THEN -1 ELSE 1)
    ELSE CmpFrom[a, b, i - 1]

\* -1, 0, 1 as a is below, equal to, above b
BigCmp[a \in Bigs, b \in Bigs] ==
    IF Len(a) # Len(b) THEN (IF Len(a) < Len(b) THEN -1 ELSE 1)
    ELSE CmpFrom[a, b, Len(a)]

MulFrom[a \in Bigs, k \in Nat, i \in Nat, carry \in Nat] ==
    IF i > Len(a) THEN Big(carry)
    ELSE <<(a[i] * k + carry) % Base>> \o MulFrom[a, k, i + 1, (a[i] * k + carry) \div Base]

\* a * k, for k at most 2^15
BigMul[a \in Bigs, k \in Nat] == IF k = 0 THEN <<>> ELSE MulFrom[a, k, 1, 0]

\* The largest k in lo..hi with d * k <= a, where d * lo <= a
QuotientDigit[a \in Bigs, d \in Bigs, lo \in Nat, hi \in Nat] ==
    IF lo = hi THEN lo
    ELSE IF BigCmp[BigMul[d, (lo + hi + 1) \div 2], a] <= 0
    THEN QuotientDigit[a, d, (lo + hi + 1) \div 2, hi]
    ELSE QuotientDigit[a, d, lo, (lo + hi + 1) \div 2 - 1]

\* Long division of n by d at digit i of n: cur is the remainder of the digits
\* above i followed by digit i, k the quotient digit for it, q the quotient
\* digits found before
LongDiv[n \in Bigs, d \in Bigs, i \in Nat, q \in Bigs, cur \in Bigs, k \in Nat] ==
    IF i = 1 THEN [q |-> Trim[<<k>> \o q], r |-> BigSub[cur, BigMul[d, k]]]
    ELSE LongDiv[n, d, i - 1, <<k>> \o q,
                 Trim[<<n[i - 1]>> \o BigSub[cur, BigMul[d, k]]],
                 QuotientDigit[Trim[<<n[i - 1]>> \o BigSub[cur, BigMul[d, k]]], d, 0, Base - 1]]

\* floor(n / d) and n mod d
BigDivMod[n \in Bigs, d \in Bigs] ==
    IF n = <<>> THEN [q |-> <<>>, r |-> <<>>]
    ELSE LongDiv[n, d, Len(n), <<>>, Trim[<<n[Len(n)]>>],
                 QuotientDigit[Trim[<<n[Len(n)]>>], d, 0, Base - 1]]

\* floor(a / k), for 0 < k < 2^15
BigDiv[a \in Bigs, k \in Nat] == BigDivMod[a, <<k>>].q

\* a * 2^s, floor(a / 2^s), a mod 2^s
BigShl[a \in Bigs, s \in Nat] ==
    IF a = <<>> THEN <<>>
    ELSE [i \in 1..(s \div LimbBits) |-> 0] \o BigMul[a, 2^(s % LimbBits)]

BigShr[a \in Bigs, s \in Nat] ==
    IF s \div LimbBits >= Len(a) THEN <<>>
    ELSE BigDiv[SubSeq(a, s \div LimbBits + 1, Len(a)), 2^(s % LimbBits)]

BigLow[a \in Bigs, s \in Nat] ==
    IF s \div LimbBits >= Len(a) THEN a
    ELSE Trim[SubSeq(a, 1, s \div LimbBits)
              \o <<a[s \div LimbBits + 1] % 2^(s % LimbBits)>>]

\* The number of binary digits of a
BitLen[a \in Bigs] ==
    IF a = <<>> THEN 0 ELSE LimbBits * (Len(a) - 1) + BitLenSmall(a[Len(a)])

\* Binary digit i of a, the lowest being digit 1
Bit(a, i) == (a[(i - 1) \div LimbBits + 1] \div 2^((i - 1) % LimbBits)) % 2

\* The number of 0 digits of a below its lowest 1, counted from digit i
TrailingZeros[a \in Bigs, i \in Nat] ==
    IF Bit(a, i) = 1 THEN 0 ELSE 1 + TrailingZeros[a, i + 1]

\* A double: (-1)^neg * m * 2^e with m below 2^53, written with m odd, or
\* with m = 0 and e = 0.  (The model's numbers stay far from the largest and
\* the smallest double, and zero carries no sign.)
Precision == 53

Doubles == [neg : BOOLEAN, m : Bigs, e : Int]

Zero == [neg |-> FALSE, m |-> <<>>, e |-> 0]

\* m * 2^e written with m odd
Odd[neg \in BOOLEAN, m \in Bigs, e \in Int, zeros \in Nat] ==
    [neg |-> neg, m |-> BigShr[m, zeros], e |-> e + zeros]

\* kept, or kept + 1 when the digits dropped below it are above a half, or
\* are a half and kept is odd
RoundHalfEven[kept \in Bigs, half \in Int, sticky \in BOOLEAN] ==
    IF half > 0 \/ (half = 0 /\ (sticky \/ kept[1] % 2 = 1))
    THEN BigAdd[kept, <<1>>] ELSE kept

\* The rounded significand written odd
RoundKept[neg \in BOOLEAN, e \in Int, rounded \in Bigs] ==
    Odd[neg, rounded, e, TrailingZeros[rounded, 1]]

\* m * 2^e rounded to its digits above the lowest drop
RoundDrop[neg \in BOOLEAN, m \in Bigs, e \in Int, sticky \in BOOLEAN, drop \in Nat] ==
    RoundKept[neg, e + drop,
              RoundHalfEven[BigShr[m, drop],
                            IF drop = 0 THEN -1
                            ELSE BigCmp[BigLow[m, drop], BigShl[<<1>>, drop - 1]],
                            sticky]]

\* The double nearest to (-1)^neg * (m + f) * 2^e with 0 <= f < 1, f # 0 iff
\* sticky, ties to the even significand; m has two digits more than the
\* precision when sticky holds
RoundToDouble[neg \in BOOLEAN, m \in Bigs, e \in Int, sticky \in BOOLEAN] ==
    IF m = <<>> THEN Zero
    ELSE RoundDrop[neg, m, e, sticky,
                   IF BitLen[m] > Precision THEN BitLen[m] - Precision ELSE 0]

\* The double of an integer of the model
fromInt(n) == RoundToDouble[n < 0, Big(IF n < 0 THEN -n ELSE n), 0, FALSE]

isPositive(x) == ~x.neg /\ x.m # <<>>

Neg(x) == IF x.m = <<>> THEN x ELSE [x EXCEPT !.neg = ~x.neg]

\* x + y for the significands of x and y at their lower exponent e
AddAt[x \in Doubles, y \in Doubles, e \in Int, mx \in Bigs, my \in Bigs] ==
    IF x.neg = y.neg THEN RoundToDouble[x.neg, BigAdd[mx, my], e, FALSE]
    ELSE IF BigCmp[mx, my] = 0 THEN Zero
    ELSE IF BigCmp[mx, my] > 0 THEN RoundToDouble[x.neg, BigSub[mx, my], e, FALSE]
    ELSE RoundToDouble[y.neg, BigSub[my, mx], e, FALSE]

\* x + y
Add[x \in Doubles, y \in Doubles] ==
    IF x.m = <<>> THEN y
    ELSE IF y.m = <<>> THEN x
    ELSE IF x.e < y.e THEN AddAt[x, y, x.e, x.m, BigShl[y.m, y.e - x.e]]
    ELSE AddAt[x, y, y.e, BigShl[x.m, x.e - y.e], y.m]

\* x - y
Sub[x \in Doubles, y \in Doubles] == Add[x, Neg(y)]

\* x * k for an integer k, 0 < k < 2^15
Times[x \in Doubles, k \in Nat] == RoundToDouble[x.neg, BigMul[x.m, k], x.e, FALSE]

DivAt[x \in Doubles, y \in Doubles, s \in Nat, qr \in [q : Bigs, r : Bigs]] ==
    RoundToDouble[x.neg # y.neg, qr.q, x.e - y.e - s, qr.r # <<>>]

\* x / y for y # 0: the quotient of the significands, x's shifted by s digits
\* so that the quotient has two digits more than the precision
DivShifted[x \in Doubles, y \in Doubles, s \in Nat] ==
    DivAt[x, y, s, BigDivMod[BigShl[x.m, s], y.m]]

\* x / y, y # 0
Div[x \in Doubles, y \in Doubles] ==
    IF x.m = <<>> THEN Zero
    ELSE DivShifted[x, y, IF Precision + 2 + BitLen[y.m] - BitLen[x.m] > 0
                          THEN Precision + 2 + BitLen[y.m] - BitLen[x.m] ELSE 0]

RoundAt[x \in Doubles, whole \in Bigs, half \in Int] ==
    RoundToDouble[x.neg,
                  IF (IF x.neg THEN half > 0 ELSE half >= 0)
                  THEN BigAdd[whole, <<1>>] ELSE whole,
                  0, FALSE]

\* Math.round(x): the integer nearest to x, a tie going up
MathRound[x \in Doubles] ==
    IF x.e >= 0 THEN x
    ELSE RoundAt[x, BigShr[x.m, -x.e],
                 BigCmp[BigLow[x.m, -x.e], BigShl[<<1>>, -x.e - 1]]]

TimesPow10[a \in Bigs, n \in Nat] == IF n = 0 THEN a ELSE TimesPow10[BigMul[a, 10], n - 1]

\* JSON.parse of the number d * 10^x: the double nearest to it
toDouble(n) ==
    IF n.x >= 0
    THEN RoundToDouble[n.d < 0, TimesPow10[Big(IF n.d < 0 THEN -n.d ELSE n.d), n.x], 0, FALSE]
    ELSE Div[fromInt(n.d), RoundToDouble[FALSE, TimesPow10[<<1>>, -n.x], 0, FALSE]]

\* String(x) for a double x: the shortest decimal that reads back as x, for the
\* doubles an export of the model writes
numberToString(x) ==
    CASE x = [neg |-> TRUE, m |-> <<25>>, e |-> 2] ->
           <<"-", "1", "0", "0">>
      [] x = [neg |-> FALSE, m |-> <<>>, e |-> 0] ->
           <<"0">>
      [] x = [neg |-> FALSE, m |-> <<19661, 6553, 13107, 102>>, e |-> -55] ->
           <<"0", ".", "1">>
      [] x = [neg |-> FALSE, m |-> <<19661, 6553, 13107, 102>>, e |-> -54] ->
           <<"0", ".", "2">>
      [] x = [neg |-> FALSE, m |-> <<1>>, e |-> -2] ->
           <<"0", ".", "2", "5">>
      [] x = [neg |-> FALSE, m |-> <<3>>, e |-> -2] ->
           <<"0", ".", "7", "5">>
      [] x = [neg |-> FALSE, m |-> <<19661, 6553, 13107, 230>>, e |-> -53] ->
           <<"0", ".", "9">>
      [] x = [neg |-> FALSE, m |-> <<1>>, e |-> 0] ->
           <<"1">>
      [] x = [neg |-> FALSE, m |-> <<2621, 18350, 30146, 229>>, e |-> -49] ->
           <<"1", "4", ".", "3", "7">>
      [] x = [neg |-> FALSE, m |-> <<23>>, e |-> 0] ->
           <<"2", "3">>
      [] x = [neg |-> FALSE, m |-> <<25>>, e |-> 0] ->
           <<"2", "5">>
      [] x = [neg |-> FALSE, m |-> <<37>>, e |-> 0] ->
           <<"3", "7">>
      [] x = [neg |-> FALSE, m |-> <<25>>, e |-> 1] ->
           <<"5", "0">>
      [] x = [neg |-> FALSE, m |-> <<125>>, e |-> -1] ->
           <<"6", "2", ".", "5">>
      [] x = [neg |-> FALSE, m |-> <<5243, 3932, 11141, 133>>, e |-> -46] ->
           <<"6", "6", ".", "6", "7">>
      [] x = [neg |-> FALSE, m |-> <<25>>, e |-> 2] ->
           <<"1", "0", "0">>
      [] x = [neg |-> FALSE, m |-> <<5>>, e |-> 5] ->
           <<"1", "6", "0">>
      [] x = [neg |-> FALSE, m |-> <<25>>, e |-> 3] ->
           <<"2", "0", "0">>
      [] x = [neg |-> FALSE, m |-> <<125>>, e |-> 1] ->
           <<"2", "5", "0">>
      [] x = [neg |-> FALSE, m |-> <<75>>, e |-> 2] ->
           <<"3", "0", "0">>
      [] x = [neg |-> FALSE, m |-> <<125>>, e |-> 2] ->
           <<"5", "0", "0">>
      [] x = [neg |-> FALSE, m |-> <<375>>, e |-> 1] ->
           <<"7", "5", "0">>
      [] x = [neg |-> FALSE, m |-> <<125>>, e |-> 3] ->
           <<"1", "0", "0", "0">>

-----------------------------------------------------------------------------
(* Ledger and categories: api/income, api/expenses, api/savings, api/masters *)

\* The tables the ledger handlers read and write
tables == <<incomeSources, expenseVerticals, savingsInstruments,
            incomeEntries, expenseEntries, savingsEntries, nextId>>

\* getCurrentUser(): the user of the caller's session, NULL without one
getCurrentUser(caller) == IF caller \in sessions THEN caller ELSE NULL

LedgerResp(op, user, id, status, msg, body) ==
    Resp(op, user, "", "", id, status, msg, body)

\* The checks of a handler passed: it goes on to its database write
Proceed == LedgerResp("proceed", NULL, NULL, 0, "", EmptyTable)

\* create<Kind>EntrySchema: the first error message, "" when the body is valid
createEntrySchema(month, ref, amount) ==
    IF month = undefined THEN "Required"
    ELSE IF ~monthSchema(month) THEN "Month must be in YYYY-MM format"
    ELSE IF ref = NULL THEN "Required"
    ELSE IF amount = undefinedNumber THEN "Required"
    ELSE amountSchema(amount)

\* Mutant: the update is not validated
updateEntrySchema_unchecked(month, ref, amount) == ""

\* update<Kind>EntrySchema: every field optional
updateEntrySchema(month, ref, amount) ==
    IF month # undefined /\ ~monthSchema(month) THEN "Month must be in YYYY-MM format"
    ELSE IF amount # undefinedNumber THEN amountSchema(amount)
    ELSE ""

\* create<Category>Schema name: z.string().min(1) (names above 100 characters
\* are not among the model's inputs)
nameSchema(name) == IF name = "" THEN "Name is required" ELSE ""

savingsCategoryEnum == {"FD_RD", "NPS_PPF", "STOCKS_ETFS", "MF"}

\* Mutant: the entry looked up by id alone
findEntry_anyOwner(t, id, userId) ==
    IF id \in Ids(t) THEN id ELSE NULL

\* prisma.<entry>.findFirst({ where: { id, userId } }): the id, or NULL
findEntry(t, id, userId) ==
    IF id \in Ids(t) /\ t[id].userId = userId THEN id ELSE NULL

\* Mutant: the category looked up by id alone
findCategory_anyOwner(t, id, userId) ==
    IF id \in Ids(t) THEN id ELSE NULL

\* prisma.<category>.findFirst({ where: { id, userId } }): the id, or NULL
findCategory(t, id, userId) ==
    IF id \in Ids(t) /\ t[id].userId = userId THEN id ELSE NULL

\* prisma.savingsInstrument.findUnique({ where: { id } }): the id, or NULL
findUnique(t, id) == IF id \in Ids(t) THEN id ELSE NULL

\* _count of the entries whose field references category id
countEntries(entries, field, id) ==
    Cardinality({e \in Ids(entries) : entries[e][field] = id})

\* Mutant: a single referencing entry does not count as use
isInUse_moreThanOne(count) == count > 1

\* if (existing._count.<entries> > 0)
isInUse(count) == count > 0

\* include: { source: { select: { id, name } } }
select(cats, id) ==
    IF id \in Ids(cats) THEN [id |-> id, name |-> cats[id].name]
    ELSE [id |-> NULL, name |-> undefined]

\* include: { instrument: { select: { id, name, category } } }
selectInstrument(cats, id) ==
    IF id \in Ids(cats)
    THEN [id |-> id, name |-> cats[id].name, category |-> cats[id].category]
    ELSE [id |-> NULL, name |-> undefined, category |-> undefined]

\* An update that writes every field of the body, given or not
spread_always(given, absent, before) == given

\* data: { ...(field && { field }) }, ...(field !== undefined && { field }):
\* the field of the body when it is given, else the stored one
spread(given, absent, before) == IF given # absent THEN given ELSE before

\* A database without foreign keys
foreignKey_unchecked(cats, ref) == TRUE

\* The foreign key of an entry to its category, of a row to its user, kept
\* by the database: a write whose reference resolves to no row is refused
foreignKey(cats, ref) == ref \in Ids(cats)

\* The unique indexes of the category tables: no row of t but those of but
\* has the name for the user, the name in the category
name_userId(t, but, name, userId) ==
    \A c \in Ids(t) \ but : ~(t[c].name = name /\ t[c].userId = userId)

name_category(t, but, name, category) ==
    \A c \in Ids(t) \ but : ~(t[c].name = name /\ t[c].category = category)

\* What the foreign key does to the delete of a category entries reference
OnDelete == {"Restrict", "Cascade"}

\* Request inputs.  A caller is a user id with a session, or NULL: a handler
\* answers a caller without a session before it reads the id or the body
Callers == {1, 2}

\* The ids a request names for a row of table t: those of its rows, and an
\* id that names no row of t
RequestIds(t) == Ids(t) \cup {0}

\* The month filter of a list request: none, a month, a malformed month
MonthFilters == {"", "2024-01", "2024-13"}

NameBodies == {[name |-> n] : n \in {"Salary", "Rent", ""}}

InstrumentBodies ==
    {[name |-> "PPF", category |-> "NPS_PPF"], [name |-> "Nifty", category |-> "NPS_PPF"],
     [name |-> "", category |-> "MF"], [name |-> "PPF", category |-> "GOLD"]}

MonthBodies == {[month |-> m] : m \in MonthFilters}

NoBody == [name |-> undefined]

\* The ledger kinds that hold rows
KindsInUse ==
    {k \in {"income", "expenses", "savings"} :
        \/ k = "income" /\ (incomeSources # EmptyTable \/ incomeEntries # EmptyTable)
        \/ k = "expenses" /\ (expenseVerticals # EmptyTable \/ expenseEntries # EmptyTable)
        \/ k = "savings" /\ (savingsInstruments # EmptyTable \/ savingsEntries # EmptyTable)}

\* The model follows requests to at most MaxKinds ledger kinds at a time: to
\* the kinds that hold rows and, while there is room, to any other
Active(k) == Cardinality(KindsInUse \cup {k}) <= MaxKinds

Request(op, ids, bodies) ==
    [op : {op}, caller : Callers, id : ids, body : bodies]
    \cup [op : {op}, caller : {NULL}, id : {NULL}, body : {NoBody}]

\* A handler run without interruption: its checks, then its write
Handle(check, write) ==
    LET response == check
    IN  /\ IF response # Proceed THEN last' = response /\ UNCHANGED tables ELSE write
        /\ UNCHANGED <<now, authVars, otpVars, inflight>>

\* A handler up to the await of its database write, its checks passed: the
\* request is in flight.  (A request that fails a check is answered at once,
\* which Handle covers.)
Begin(check, q) ==
    /\ check = Proceed
    /\ Cardinality(inflight) < MaxInflight
    /\ inflight' = inflight \cup {q}
    /\ UNCHANGED <<now, authVars, otpVars, tables, last>>

\* A handler that only reads
Answer(resp) ==
    /\ last' = resp
    /\ UNCHANGED <<now, authVars, otpVars, ledgerVars>>

-----------------------------------------------------------------------------
(* income-sources *)

\* GET /api/masters/income-sources
getIncomeSources ==
    /\ Active("income")
    /\ \E q \in Request("income-sources/list", {NULL}, {NoBody}) :
        LET user == getCurrentUser(q.caller)
            R(status, msg, body) == LedgerResp("income-sources/list", user, NULL, status, msg, body)
            found == {c \in Ids(incomeSources) : incomeSources[c].userId = user}
        IN  Answer(IF user = NULL THEN R(401, "Unauthorized", EmptyTable)
                   ELSE R(200, "", [c \in found |->
                            [count |-> countEntries(incomeEntries, "sourceId", c)] @@ incomeSources[c]]))

\* POST /api/masters/income-sources up to its database write
postIncomeSourceCheck(q) ==
    LET user == getCurrentUser(q.caller)
        name == q.body.name
        R(status, msg) == LedgerResp("income-sources/post", user, NULL, status, msg, EmptyTable)
    IN  IF user = NULL THEN R(401, "Unauthorized")
        ELSE IF nameSchema(name) # "" THEN R(400, nameSchema(name))
        ELSE IF \E c \in Ids(incomeSources) : incomeSources[c].name = name /\ incomeSources[c].userId = user
        THEN R(400, "Income source with this name already exists")
        ELSE Proceed

\* prisma.incomeSource.create and the response
postIncomeSourceWrite(q) ==
    LET user == getCurrentUser(q.caller)
        row == [name |-> q.body.name, userId |-> user, isDefault |-> FALSE]
        R(id, status, msg, body) == LedgerResp("income-sources/post", user, id, status, msg, body)
    IN  IF ~name_userId(incomeSources, {}, row.name, row.userId) \/ ~foreignKey(users, row.userId)
        THEN /\ last' = R(NULL, 500, "Failed to create income source", EmptyTable)
             /\ UNCHANGED tables
        ELSE /\ nextId <= MaxIds
             /\ incomeSources' = Insert(incomeSources, nextId, row)
             /\ nextId' = nextId + 1
             /\ last' = R(nextId, 201, "", Insert(EmptyTable, nextId, row))
             /\ UNCHANGED <<expenseVerticals, savingsInstruments, incomeEntries, expenseEntries, savingsEntries>>

\* POST handled without interruption
postIncomeSourceRequest(q) == Handle(postIncomeSourceCheck(q), postIncomeSourceWrite(q))

postIncomeSource ==
    /\ Active("income")
    /\ \E q \in Request("income-sources/post", {NULL}, NameBodies) : postIncomeSourceRequest(q)

postIncomeSourceBegin ==
    /\ Active("income")
    /\ \E q \in Request("income-sources/post", {NULL}, NameBodies) : Begin(postIncomeSourceCheck(q), q)

\* PUT /api/masters/income-sources/[id] up to its database write
putIncomeSourceCheck(q) ==
    LET user == getCurrentUser(q.caller)
        name == q.body.name
        R(status, msg) == LedgerResp("income-sources/put", user, q.id, status, msg, EmptyTable)
    IN  IF user = NULL THEN R(401, "Unauthorized")
        ELSE IF findCategory(incomeSources, q.id, user) = NULL THEN R(404, "Source not found")
        ELSE IF nameSchema(name) # "" THEN R(400, nameSchema(name))
        ELSE IF \E c \in Ids(incomeSources) \ {q.id} :
                    incomeSources[c].name = name /\ incomeSources[c].userId = user
        THEN R(400, "Income source with this name already exists")
        ELSE Proceed

\* prisma.incomeSource.update({ where: { id }, data: { name } }) and the response
putIncomeSourceWrite(q) ==
    LET user == getCurrentUser(q.caller)
        R(status, msg, body) == LedgerResp("income-sources/put", user, q.id, status, msg, body)
    IN  IF \/ q.id \notin Ids(incomeSources)
           \/ ~name_userId(incomeSources, {q.id}, q.body.name, incomeSources[q.id].userId)
        THEN /\ last' = R(500, "Failed to update income source", EmptyTable)
             /\ UNCHANGED tables
        ELSE /\ incomeSources' = [incomeSources EXCEPT ![q.id].name = q.body.name]
             /\ last' = R(200, "", Insert(EmptyTable, q.id, incomeSources'[q.id]))
             /\ UNCHANGED <<expenseVerticals, savingsInstruments, incomeEntries, expenseEntries, savingsEntries, nextId>>

\* PUT handled without interruption
putIncomeSourceRequest(q) == Handle(putIncomeSourceCheck(q), putIncomeSourceWrite(q))

putIncomeSource ==
    /\ Active("income")
    /\ \E q \in Request("income-sources/put", RequestIds(incomeSources), NameBodies) : putIncomeSourceRequest(q)

putIncomeSourceBegin ==
    /\ Active("income")
    /\ \E q \in Request("income-sources/put", RequestIds(incomeSources), NameBodies) : Begin(putIncomeSourceCheck(q), q)

\* DELETE /api/masters/income-sources/[id] up to its database write
deleteIncomeSourceCheck(q) ==
    LET user == getCurrentUser(q.caller)
        count == countEntries(incomeEntries, "sourceId", q.id)
        R(status, msg) == LedgerResp("income-sources/delete", user, q.id, status, msg, EmptyTable)
    IN  IF user = NULL THEN R(401, "Unauthorized")
        ELSE IF findCategory(incomeSources, q.id, user) = NULL THEN R(404, "Source not found")
        ELSE IF isInUse(count)
        THEN WithCount(R(400, "Cannot delete: entries are using this source. Reassign them first."),
                       count)
        ELSE Proceed

\* prisma.incomeSource.delete({ where: { id } }) and the response
deleteIncomeSourceWrite(q) ==
    LET user == getCurrentUser(q.caller)
        referencing == {e \in Ids(incomeEntries) : incomeEntries[e].sourceId = q.id}
        R(status, msg) == LedgerResp("income-sources/delete", user, q.id, status, msg, EmptyTable)
    IN  \E onDelete \in OnDelete :
            IF q.id \notin Ids(incomeSources) \/ (referencing # {} /\ onDelete = "Restrict")
            THEN /\ last' = R(500, "Failed to delete income source")
                 /\ UNCHANGED tables
            ELSE /\ incomeSources' = Remove(incomeSources, {q.id})
                 /\ incomeEntries' = Remove(incomeEntries, referencing)
                 /\ last' = R(200, "Source deleted successfully")
                 /\ UNCHANGED <<expenseVerticals, savingsInstruments, expenseEntries, savingsEntries, nextId>>

deleteIncomeSource ==
    /\ Active("income")
    /\ \E q \in Request("income-sources/delete", RequestIds(incomeSources), {NoBody}) :
        Handle(deleteIncomeSourceCheck(q), deleteIncomeSourceWrite(q))

deleteIncomeSourceBegin ==
    /\ Active("income")
    /\ \E q \in Request("income-sources/delete", RequestIds(incomeSources), {NoBody}) : Begin(deleteIncomeSourceCheck(q), q)

-----------------------------------------------------------------------------
(* expense-verticals *)

\* GET /api/masters/expense-verticals
getExpenseVerticals ==
    /\ Active("expenses")
    /\ \E q \in Request("expense-verticals/list", {NULL}, {NoBody}) :
        LET user == getCurrentUser(q.caller)
            R(status, msg, body) == LedgerResp("expense-verticals/list", user, NULL, status, msg, body)
            found == {c \in Ids(expenseVerticals) : expenseVerticals[c].userId = user}
        IN  Answer(IF user = NULL THEN R(401, "Unauthorized", EmptyTable)
                   ELSE R(200, "", [c \in found |->
                            [count |-> countEntries(expenseEntries, "verticalId", c)] @@ expenseVerticals[c]]))

\* POST /api/masters/expense-verticals up to its database write
postExpenseVerticalCheck(q) ==
    LET user == getCurrentUser(q.caller)
        name == q.body.name
        R(status, msg) == LedgerResp("expense-verticals/post", user, NULL, status, msg, EmptyTable)
    IN  IF user = NULL THEN R(401, "Unauthorized")
        ELSE IF nameSchema(name) # "" THEN R(400, nameSchema(name))
        ELSE IF \E c \in Ids(expenseVerticals) : expenseVerticals[c].name = name /\ expenseVerticals[c].userId = user
        THEN R(400, "Expense vertical with this name already exists")
        ELSE Proceed

\* prisma.expenseVertical.create and the response
postExpenseVerticalWrite(q) ==
    LET user == getCurrentUser(q.caller)
        row == [name |-> q.body.name, userId |-> user, isDefault |-> FALSE]
        R(id, status, msg, body) == LedgerResp("expense-verticals/post", user, id, status, msg, body)
    IN  IF ~name_userId(expenseVerticals, {}, row.name, row.userId) \/ ~foreignKey(users, row.userId)
        THEN /\ last' = R(NULL, 500, "Failed to create expense vertical", EmptyTable)
             /\ UNCHANGED tables
        ELSE /\ nextId <= MaxIds
             /\ expenseVerticals' = Insert(expenseVerticals, nextId, row)
             /\ nextId' = nextId + 1
             /\ last' = R(nextId, 201, "", Insert(EmptyTable, nextId, row))
             /\ UNCHANGED <<incomeSources, savingsInstruments, incomeEntries, expenseEntries, savingsEntries>>

\* POST handled without interruption
postExpenseVerticalRequest(q) == Handle(postExpenseVerticalCheck(q), postExpenseVerticalWrite(q))

postExpenseVertical ==
    /\ Active("expenses")
    /\ \E q \in Request("expense-verticals/post", {NULL}, NameBodies) : postExpenseVerticalRequest(q)

postExpenseVerticalBegin ==
    /\ Active("expenses")
    /\ \E q \in Request("expense-verticals/post", {NULL}, NameBodies) : Begin(postExpenseVerticalCheck(q), q)

\* PUT /api/masters/expense-verticals/[id] up to its database write
putExpenseVerticalCheck(q) ==
    LET user == getCurrentUser(q.caller)
        name == q.body.name
        R(status, msg) == LedgerResp("expense-verticals/put", user, q.id, status, msg, EmptyTable)
    IN  IF user = NULL THEN R(401, "Unauthorized")
        ELSE IF findCategory(expenseVerticals, q.id, user) = NULL THEN R(404, "Vertical not found")
        ELSE IF nameSchema(name) # "" THEN R(400, nameSchema(name))
        ELSE IF \E c \in Ids(expenseVerticals) \ {q.id} :
                    expenseVerticals[c].name = name /\ expenseVerticals[c].userId = user
        THEN R(400, "Expense vertical with this name already exists")
        ELSE Proceed

\* prisma.expenseVertical.update({ where: { id }, data: { name } }) and the response
putExpenseVerticalWrite(q) ==
    LET user == getCurrentUser(q.caller)
        R(status, msg, body) == LedgerResp("expense-verticals/put", user, q.id, status, msg, body)
    IN  IF \/ q.id \notin Ids(expenseVerticals)
           \/ ~name_userId(expenseVerticals, {q.id}, q.body.name, expenseVerticals[q.id].userId)
        THEN /\ last' = R(500, "Failed to update expense vertical", EmptyTable)
             /\ UNCHANGED tables
        ELSE /\ expenseVerticals' = [expenseVerticals EXCEPT ![q.id].name = q.body.name]
             /\ last' = R(200, "", Insert(EmptyTable, q.id, expenseVerticals'[q.id]))
             /\ UNCHANGED <<incomeSources, savingsInstruments, incomeEntries, expenseEntries, savingsEntries, nextId>>

\* PUT handled without interruption
putExpenseVerticalRequest(q) == Handle(putExpenseVerticalCheck(q), putExpenseVerticalWrite(q))

putExpenseVertical ==
    /\ Active("expenses")
    /\ \E q \in Request("expense-verticals/put", RequestIds(expenseVerticals), NameBodies) : putExpenseVerticalRequest(q)

putExpenseVerticalBegin ==
    /\ Active("expenses")
    /\ \E q \in Request("expense-verticals/put", RequestIds(expenseVerticals), NameBodies) : Begin(putExpenseVerticalCheck(q), q)

\* DELETE /api/masters/expense-verticals/[id] up to its database write
deleteExpenseVerticalCheck(q) ==
    LET user == getCurrentUser(q.caller)
        count == countEntries(expenseEntries, "verticalId", q.id)
        R(status, msg) == LedgerResp("expense-verticals/delete", user, q.id, status, msg, EmptyTable)
    IN  IF user = NULL THEN R(401, "Unauthorized")
        ELSE IF findCategory(expenseVerticals, q.id, user) = NULL THEN R(404, "Vertical not found")
        ELSE IF isInUse(count)
        THEN WithCount(R(400, "Cannot delete: entries are using this vertical. Reassign them first."),
                       count)
        ELSE Proceed

\* prisma.expenseVertical.delete({ where: { id } }) and the response
deleteExpenseVerticalWrite(q) ==
    LET user == getCurrentUser(q.caller)
        referencing == {e \in Ids(expenseEntries) : expenseEntries[e].verticalId = q.id}
        R(status, msg) == LedgerResp("expense-verticals/delete", user, q.id, status, msg, EmptyTable)
    IN  \E onDelete \in OnDelete :
            IF q.id \notin Ids(expenseVerticals) \/ (referencing # {} /\ onDelete = "Restrict")
            THEN /\ last' = R(500, "Failed to delete expense vertical")
                 /\ UNCHANGED tables
            ELSE /\ expenseVerticals' = Remove(expenseVerticals, {q.id})
                 /\ expenseEntries' = Remove(expenseEntries, referencing)
                 /\ last' = R(200, "Vertical deleted successfully")
                 /\ UNCHANGED <<incomeSources, savingsInstruments, incomeEntries, savingsEntries, nextId>>

deleteExpenseVertical ==
    /\ Active("expenses")
    /\ \E q \in Request("expense-verticals/delete", RequestIds(expenseVerticals), {NoBody}) :
        Handle(deleteExpenseVerticalCheck(q), deleteExpenseVerticalWrite(q))

deleteExpenseVerticalBegin ==
    /\ Active("expenses")
    /\ \E q \in Request("expense-verticals/delete", RequestIds(expenseVerticals), {NoBody}) : Begin(deleteExpenseVerticalCheck(q), q)

-----------------------------------------------------------------------------
(* savings-instruments: one table shared by all users *)

\* GET /api/masters/savings-instruments
getSavingsInstruments ==
    /\ Active("savings")
    /\ \E q \in Request("savings-instruments/list", {NULL}, {NoBody}) :
        LET user == getCurrentUser(q.caller)
            R(status, msg, body) ==
                LedgerResp("savings-instruments/list", user, NULL, status, msg, body)
        IN  Answer(IF user = NULL THEN R(401, "Unauthorized", EmptyTable)
                   ELSE R(200, "", [c \in Ids(savingsInstruments) |->
                            [count |-> countEntries(savingsEntries, "instrumentId", c)]
                                @@ savingsInstruments[c]]))

\* createSavingsInstrumentSchema: the first error message, "" when valid
createSavingsInstrumentSchema(name, category) ==
    IF nameSchema(name) # "" THEN nameSchema(name)
    ELSE IF category \notin savingsCategoryEnum THEN "Invalid enum value"
    ELSE ""

\* POST /api/masters/savings-instruments up to its database write
postSavingsInstrumentCheck(q) ==
    LET user == getCurrentUser(q.caller)
        name == q.body.name
        category == q.body.category
        error == createSavingsInstrumentSchema(name, category)
        R(status, msg) ==
            LedgerResp("savings-instruments/post", user, NULL, status, msg, EmptyTable)
    IN  IF user = NULL THEN R(401, "Unauthorized")
        ELSE IF error # "" THEN R(400, error)
        ELSE IF \E c \in Ids(savingsInstruments) :
                    /\ savingsInstruments[c].name = name
                    /\ savingsInstruments[c].category = category
        THEN R(400, "Savings instrument with this name already exists in this category")
        ELSE Proceed

\* prisma.savingsInstrument.create and the response
postSavingsInstrumentWrite(q) ==
    LET user == getCurrentUser(q.caller)
        row == [name |-> q.body.name, category |-> q.body.category, isDefault |-> FALSE]
        R(id, status, msg, body) ==
            LedgerResp("savings-instruments/post", user, id, status, msg, body)
    IN  IF ~name_category(savingsInstruments, {}, row.name, row.category)
        THEN /\ last' = R(NULL, 500, "Failed to create savings instrument", EmptyTable)
             /\ UNCHANGED tables
        ELSE /\ nextId <= MaxIds
             /\ savingsInstruments' = Insert(savingsInstruments, nextId, row)
             /\ nextId' = nextId + 1
             /\ last' = R(nextId, 201, "", Insert(EmptyTable, nextId, row))
             /\ UNCHANGED <<incomeSources, expenseVerticals, incomeEntries, expenseEntries, savingsEntries>>

\* POST handled without interruption
postSavingsInstrumentRequest(q) == Handle(postSavingsInstrumentCheck(q), postSavingsInstrumentWrite(q))

postSavingsInstrument ==
    /\ Active("savings")
    /\ \E q \in Request("savings-instruments/post", {NULL}, InstrumentBodies) : postSavingsInstrumentRequest(q)

postSavingsInstrumentBegin ==
    /\ Active("savings")
    /\ \E q \in Request("savings-instruments/post", {NULL}, InstrumentBodies) :
        Begin(postSavingsInstrumentCheck(q), q)

\* PUT /api/masters/savings-instruments/[id] up to its database write
putSavingsInstrumentCheck(q) ==
    LET user == getCurrentUser(q.caller)
        name == q.body.name
        category == q.body.category
        error == createSavingsInstrumentSchema(name, category)
        R(status, msg) ==
            LedgerResp("savings-instruments/put", user, q.id, status, msg, EmptyTable)
    IN  IF user = NULL THEN R(401, "Unauthorized")
        ELSE IF findUnique(savingsInstruments, q.id) = NULL THEN R(404, "Instrument not found")
        ELSE IF error # "" THEN R(400, error)
        ELSE IF \E c \in Ids(savingsInstruments) \ {q.id} :
                    /\ savingsInstruments[c].name = name
                    /\ savingsInstruments[c].category = category
        THEN R(400, "Savings instrument with this name already exists in this category")
        ELSE Proceed

\* prisma.savingsInstrument.update({ where: { id }, data: { name, category } })
\* and the response
putSavingsInstrumentWrite(q) ==
    LET user == getCurrentUser(q.caller)
        R(status, msg, body) ==
            LedgerResp("savings-instruments/put", user, q.id, status, msg, body)
    IN  IF \/ q.id \notin Ids(savingsInstruments)
           \/ ~name_category(savingsInstruments, {q.id}, q.body.name, q.body.category)
        THEN /\ last' = R(500, "Failed to update savings instrument", EmptyTable)
             /\ UNCHANGED tables
        ELSE /\ savingsInstruments' =
                    [savingsInstruments EXCEPT ![q.id].name = q.body.name,
                                               ![q.id].category = q.body.category]
             /\ last' = R(200, "", Insert(EmptyTable, q.id, savingsInstruments'[q.id]))
             /\ UNCHANGED <<incomeSources, expenseVerticals, incomeEntries, expenseEntries, savingsEntries, nextId>>

\* PUT handled without interruption
putSavingsInstrumentRequest(q) == Handle(putSavingsInstrumentCheck(q), putSavingsInstrumentWrite(q))

putSavingsInstrument ==
    /\ Active("savings")
    /\ \E q \in Request("savings-instruments/put", RequestIds(savingsInstruments), InstrumentBodies) : putSavingsInstrumentRequest(q)

putSavingsInstrumentBegin ==
    /\ Active("savings")
    /\ \E q \in Request("savings-instruments/put", RequestIds(savingsInstruments), InstrumentBodies) :
        Begin(putSavingsInstrumentCheck(q), q)

\* DELETE /api/masters/savings-instruments/[id] up to its database write
deleteSavingsInstrumentCheck(q) ==
    LET user == getCurrentUser(q.caller)
        count == countEntries(savingsEntries, "instrumentId", q.id)
        R(status, msg) ==
            LedgerResp("savings-instruments/delete", user, q.id, status, msg, EmptyTable)
    IN  IF user = NULL THEN R(401, "Unauthorized")
        ELSE IF findUnique(savingsInstruments, q.id) = NULL THEN R(404, "Instrument not found")
        ELSE IF isInUse(count)
        THEN WithCount(R(400, "Cannot delete: entries are using this instrument. Reassign them first."),
                       count)
        ELSE Proceed

\* prisma.savingsInstrument.delete({ where: { id } }) and the response
deleteSavingsInstrumentWrite(q) ==
    LET user == getCurrentUser(q.caller)
        referencing == {e \in Ids(savingsEntries) : savingsEntries[e].instrumentId = q.id}
        R(status, msg) ==
            LedgerResp("savings-instruments/delete", user, q.id, status, msg, EmptyTable)
    IN  \E onDelete \in OnDelete :
            IF q.id \notin Ids(savingsInstruments) \/ (referencing # {} /\ onDelete = "Restrict")
            THEN /\ last' = R(500, "Failed to delete savings instrument")
                 /\ UNCHANGED tables
            ELSE /\ savingsInstruments' = Remove(savingsInstruments, {q.id})
                 /\ savingsEntries' = Remove(savingsEntries, referencing)
                 /\ last' = R(200, "Instrument deleted successfully")
                 /\ UNCHANGED <<incomeSources, expenseVerticals, incomeEntries, expenseEntries, nextId>>

deleteSavingsInstrument ==
    /\ Active("savings")
    /\ \E q \in Request("savings-instruments/delete", RequestIds(savingsInstruments), {NoBody}) :
        Handle(deleteSavingsInstrumentCheck(q), deleteSavingsInstrumentWrite(q))

deleteSavingsInstrumentBegin ==
    /\ Active("savings")
    /\ \E q \in Request("savings-instruments/delete", RequestIds(savingsInstruments), {NoBody}) :
        Begin(deleteSavingsInstrumentCheck(q), q)

-----------------------------------------------------------------------------
(* income entries *)

\* Request bodies: a full entry per referenced id, an amount alone, a malformed
\* month, a zero amount, an amount above the maximum
IncomeEntryBodies ==
    {[month |-> "2024-01", sourceId |-> r, amount |-> Dec(100, 0), notes |-> undefined] :
        r \in RequestIds(incomeSources)}
    \cup {[month |-> undefined, sourceId |-> NULL, amount |-> Dec(250, 0), notes |-> "rent"],
          [month |-> "2024-13", sourceId |-> NULL, amount |-> undefinedNumber, notes |-> undefined],
          [month |-> "2024-01", sourceId |-> NULL, amount |-> Dec(0, 0), notes |-> undefined],
          [month |-> undefined, sourceId |-> NULL, amount |-> Dec(1, 12), notes |-> undefined]}

\* findMany include: the entry with the selected fields of its source
includeIncomeEntry(entry) ==
    [source |-> select(incomeSources, entry.sourceId)] @@ entry

\* GET /api/income
getIncomeEntries ==
    /\ Active("income")
    /\ \E q \in Request("income/list", {NULL}, MonthBodies) :
        LET user == getCurrentUser(q.caller)
            month == q.body.month
            R(status, msg, body) == LedgerResp("income/list", user, NULL, status, msg, body)
            found == {e \in Ids(incomeEntries) :
                         /\ incomeEntries[e].userId = user
                         /\ month # "" => incomeEntries[e].month = month}
        IN  Answer(IF user = NULL THEN R(401, "Unauthorized", EmptyTable)
                   ELSE IF month # "" /\ ~monthSchema(month)
                   THEN R(400, "Invalid month format. Use YYYY-MM", EmptyTable)
                   ELSE R(200, "", [e \in found |-> includeIncomeEntry(incomeEntries[e])]))

\* POST /api/income up to its database write
postIncomeEntryCheck(q) ==
    LET user == getCurrentUser(q.caller)
        error == createEntrySchema(q.body.month, q.body.sourceId, q.body.amount)
        R(status, msg) == LedgerResp("income/post", user, NULL, status, msg, EmptyTable)
    IN  IF user = NULL THEN R(401, "Unauthorized")
        ELSE IF error # "" THEN R(400, error)
        ELSE IF findCategory(incomeSources, q.body.sourceId, user) = NULL
        THEN R(400, "Invalid income source")
        ELSE Proceed

\* prisma.incomeEntry.create and the response
postIncomeEntryWrite(q) ==
    LET user == getCurrentUser(q.caller)
        entry == [month |-> q.body.month, sourceId |-> q.body.sourceId,
                  amount |-> q.body.amount, notes |-> q.body.notes, userId |-> user]
        R(id, status, msg, body) == LedgerResp("income/post", user, id, status, msg, body)
    IN  IF ~foreignKey(incomeSources, q.body.sourceId) \/ ~foreignKey(users, user)
        THEN /\ last' = R(NULL, 500, "Failed to create income entry", EmptyTable)
             /\ UNCHANGED tables
        ELSE /\ nextId <= MaxIds
             /\ incomeEntries' = Insert(incomeEntries, nextId, entry)
             /\ nextId' = nextId + 1
             /\ last' = R(nextId, 201, "", Insert(EmptyTable, nextId, includeIncomeEntry(entry)))
             /\ UNCHANGED <<incomeSources, expenseVerticals, savingsInstruments, expenseEntries, savingsEntries>>

postIncomeEntry ==
    /\ Active("income")
    /\ \E q \in Request("income/post", {NULL}, IncomeEntryBodies) :
        Handle(postIncomeEntryCheck(q), postIncomeEntryWrite(q))

postIncomeEntryBegin ==
    /\ Active("income")
    /\ \E q \in Request("income/post", {NULL}, IncomeEntryBodies) : Begin(postIncomeEntryCheck(q), q)

\* GET /api/income/[id]
getIncomeEntry ==
    /\ Active("income")
    /\ \E q \in Request("income/get", RequestIds(incomeEntries), {NoBody}) :
        LET user == getCurrentUser(q.caller)
            R(status, msg, body) == LedgerResp("income/get", user, q.id, status, msg, body)
        IN  Answer(IF user = NULL THEN R(401, "Unauthorized", EmptyTable)
                   ELSE IF findEntry(incomeEntries, q.id, user) = NULL
                   THEN R(404, "Entry not found", EmptyTable)
                   ELSE R(200, "", Insert(EmptyTable, q.id, includeIncomeEntry(incomeEntries[q.id]))))

\* PUT /api/income/[id] up to its database write
putIncomeEntryCheck(q) ==
    LET user == getCurrentUser(q.caller)
        error == updateEntrySchema(q.body.month, q.body.sourceId, q.body.amount)
        R(status, msg) == LedgerResp("income/put", user, q.id, status, msg, EmptyTable)
    IN  IF user = NULL THEN R(401, "Unauthorized")
        ELSE IF findEntry(incomeEntries, q.id, user) = NULL THEN R(404, "Entry not found")
        ELSE IF error # "" THEN R(400, error)
        ELSE IF q.body.sourceId # NULL /\ findCategory(incomeSources, q.body.sourceId, user) = NULL
        THEN R(400, "Invalid income source")
        ELSE Proceed

\* prisma.incomeEntry.update({ where: { id } }) with the fields given, and the response
putIncomeEntryWrite(q) ==
    LET user == getCurrentUser(q.caller)
        old == incomeEntries[q.id]
        entry == [month |-> spread(q.body.month, undefined, old.month),
                  sourceId |-> spread(q.body.sourceId, NULL, old.sourceId),
                  amount |-> spread(q.body.amount, undefinedNumber, old.amount),
                  notes |-> spread(q.body.notes, undefined, old.notes),
                  userId |-> old.userId]
        R(status, msg, body) == LedgerResp("income/put", user, q.id, status, msg, body)
    IN  IF \/ q.id \notin Ids(incomeEntries)
           \/ (q.body.sourceId # NULL /\ ~foreignKey(incomeSources, q.body.sourceId))
        THEN /\ last' = R(500, "Failed to update income entry", EmptyTable)
             /\ UNCHANGED tables
        ELSE /\ incomeEntries' = [incomeEntries EXCEPT ![q.id] = entry]
             /\ last' = R(200, "", Insert(EmptyTable, q.id, includeIncomeEntry(entry)))
             /\ UNCHANGED <<incomeSources, expenseVerticals, savingsInstruments, expenseEntries, savingsEntries, nextId>>

putIncomeEntry ==
    /\ Active("income")
    /\ \E q \in Request("income/put", RequestIds(incomeEntries), IncomeEntryBodies) :
        Handle(putIncomeEntryCheck(q), putIncomeEntryWrite(q))

putIncomeEntryBegin ==
    /\ Active("income")
    /\ \E q \in Request("income/put", RequestIds(incomeEntries), IncomeEntryBodies) : Begin(putIncomeEntryCheck(q), q)

\* DELETE /api/income/[id]
deleteIncomeEntry ==
    /\ Active("income")
    /\ \E q \in Request("income/delete", RequestIds(incomeEntries), {NoBody}) :
        LET user == getCurrentUser(q.caller)
            R(status, msg) == LedgerResp("income/delete", user, q.id, status, msg, EmptyTable)
        IN  /\ IF user = NULL
               THEN last' = R(401, "Unauthorized") /\ UNCHANGED tables
               ELSE IF findEntry(incomeEntries, q.id, user) = NULL
               THEN last' = R(404, "Entry not found") /\ UNCHANGED tables
               ELSE /\ incomeEntries' = Remove(incomeEntries, {q.id})
                    /\ last' = R(200, "Entry deleted successfully")
                    /\ UNCHANGED <<incomeSources, expenseVerticals, savingsInstruments, expenseEntries, savingsEntries, nextId>>
            /\ UNCHANGED <<now, authVars, otpVars, inflight>>

-----------------------------------------------------------------------------
(* expenses entries *)

\* Request bodies: a full entry per referenced id, an amount alone, a malformed
\* month, a zero amount, an amount above the maximum
ExpenseEntryBodies ==
    {[month |-> "2024-01", verticalId |-> r, amount |-> Dec(100, 0), notes |-> undefined] :
        r \in RequestIds(expenseVerticals)}
    \cup {[month |-> undefined, verticalId |-> NULL, amount |-> Dec(250, 0), notes |-> "rent"],
          [month |-> "2024-13", verticalId |-> NULL, amount |-> undefinedNumber, notes |-> undefined],
          [month |-> "2024-01", verticalId |-> NULL, amount |-> Dec(0, 0), notes |-> undefined],
          [month |-> undefined, verticalId |-> NULL, amount |-> Dec(1, 12), notes |-> undefined]}

\* findMany include: the entry with the selected fields of its vertical
includeExpenseEntry(entry) ==
    [vertical |-> select(expenseVerticals, entry.verticalId)] @@ entry

\* GET /api/expenses
getExpenseEntries ==
    /\ Active("expenses")
    /\ \E q \in Request("expenses/list", {NULL}, MonthBodies) :
        LET user == getCurrentUser(q.caller)
            month == q.body.month
            R(status, msg, body) == LedgerResp("expenses/list", user, NULL, status, msg, body)
            found == {e \in Ids(expenseEntries) :
                         /\ expenseEntries[e].userId = user
                         /\ month # "" => expenseEntries[e].month = month}
        IN  Answer(IF user = NULL THEN R(401, "Unauthorized", EmptyTable)
                   ELSE IF month # "" /\ ~monthSchema(month)
                   THEN R(400, "Invalid month format. Use YYYY-MM", EmptyTable)
                   ELSE R(200, "", [e \in found |-> includeExpenseEntry(expenseEntries[e])]))

\* POST /api/expenses up to its database write
postExpenseEntryCheck(q) ==
    LET user == getCurrentUser(q.caller)
        error == createEntrySchema(q.body.month, q.body.verticalId, q.body.amount)
        R(status, msg) == LedgerResp("expenses/post", user, NULL, status, msg, EmptyTable)
    IN  IF user = NULL THEN R(401, "Unauthorized")
        ELSE IF error # "" THEN R(400, error)
        ELSE IF findCategory(expenseVerticals, q.body.verticalId, user) = NULL
        THEN R(400, "Invalid expense vertical")
        ELSE Proceed

\* prisma.expenseEntry.create and the response
postExpenseEntryWrite(q) ==
    LET user == getCurrentUser(q.caller)
        entry == [month |-> q.body.month, verticalId |-> q.body.verticalId,
                  amount |-> q.body.amount, notes |-> q.body.notes, userId |-> user]
        R(id, status, msg, body) == LedgerResp("expenses/post", user, id, status, msg, body)
    IN  IF ~foreignKey(expenseVerticals, q.body.verticalId) \/ ~foreignKey(users, user)
        THEN /\ last' = R(NULL, 500, "Failed to create expense entry", EmptyTable)
             /\ UNCHANGED tables
        ELSE /\ nextId <= MaxIds
             /\ expenseEntries' = Insert(expenseEntries, nextId, entry)
             /\ nextId' = nextId + 1
             /\ last' = R(nextId, 201, "", Insert(EmptyTable, nextId, includeExpenseEntry(entry)))
             /\ UNCHANGED <<incomeSources, expenseVerticals, savingsInstruments, incomeEntries, savingsEntries>>

postExpenseEntry ==
    /\ Active("expenses")
    /\ \E q \in Request("expenses/post", {NULL}, ExpenseEntryBodies) :
        Handle(postExpenseEntryCheck(q), postExpenseEntryWrite(q))

postExpenseEntryBegin ==
    /\ Active("expenses")
    /\ \E q \in Request("expenses/post", {NULL}, ExpenseEntryBodies) : Begin(postExpenseEntryCheck(q), q)

\* GET /api/expenses/[id]
getExpenseEntry ==
    /\ Active("expenses")
    /\ \E q \in Request("expenses/get", RequestIds(expenseEntries), {NoBody}) :
        LET user == getCurrentUser(q.caller)
            R(status, msg, body) == LedgerResp("expenses/get", user, q.id, status, msg, body)
        IN  Answer(IF user = NULL THEN R(401, "Unauthorized", EmptyTable)
                   ELSE IF findEntry(expenseEntries, q.id, user) = NULL
                   THEN R(404, "Entry not found", EmptyTable)
                   ELSE R(200, "", Insert(EmptyTable, q.id, includeExpenseEntry(expenseEntries[q.id]))))

\* PUT /api/expenses/[id] up to its database write
putExpenseEntryCheck(q) ==
    LET user == getCurrentUser(q.caller)
        error == updateEntrySchema(q.body.month, q.body.verticalId, q.body.amount)
        R(status, msg) == LedgerResp("expenses/put", user, q.id, status, msg, EmptyTable)
    IN  IF user = NULL THEN R(401, "Unauthorized")
        ELSE IF findEntry(expenseEntries, q.id, user) = NULL THEN R(404, "Entry not found")
        ELSE IF error # "" THEN R(400, error)
        ELSE IF q.body.verticalId # NULL /\ findCategory(expenseVerticals, q.body.verticalId, user) = NULL
        THEN R(400, "Invalid expense vertical")
        ELSE Proceed

\* prisma.expenseEntry.update({ where: { id } }) with the fields given, and the response
putExpenseEntryWrite(q) ==
    LET user == getCurrentUser(q.caller)
        old == expenseEntries[q.id]
        entry == [month |-> spread(q.body.month, undefined, old.month),
                  verticalId |-> spread(q.body.verticalId, NULL, old.verticalId),
                  amount |-> spread(q.body.amount, undefinedNumber, old.amount),
                  notes |-> spread(q.body.notes, undefined, old.notes),
                  userId |-> old.userId]
        R(status, msg, body) == LedgerResp("expenses/put", user, q.id, status, msg, body)
    IN  IF \/ q.id \notin Ids(expenseEntries)
           \/ (q.body.verticalId # NULL /\ ~foreignKey(expenseVerticals, q.body.verticalId))
        THEN /\ last' = R(500, "Failed to update expense entry", EmptyTable)
             /\ UNCHANGED tables
        ELSE /\ expenseEntries' = [expenseEntries EXCEPT ![q.id] = entry]
             /\ last' = R(200, "", Insert(EmptyTable, q.id, includeExpenseEntry(entry)))
             /\ UNCHANGED <<incomeSources, expenseVerticals, savingsInstruments, incomeEntries, savingsEntries, nextId>>

putExpenseEntry ==
    /\ Active("expenses")
    /\ \E q \in Request("expenses/put", RequestIds(expenseEntries), ExpenseEntryBodies) :
        Handle(putExpenseEntryCheck(q), putExpenseEntryWrite(q))

putExpenseEntryBegin ==
    /\ Active("expenses")
    /\ \E q \in Request("expenses/put", RequestIds(expenseEntries), ExpenseEntryBodies) : Begin(putExpenseEntryCheck(q), q)

\* DELETE /api/expenses/[id]
deleteExpenseEntry ==
    /\ Active("expenses")
    /\ \E q \in Request("expenses/delete", RequestIds(expenseEntries), {NoBody}) :
        LET user == getCurrentUser(q.caller)
            R(status, msg) == LedgerResp("expenses/delete", user, q.id, status, msg, EmptyTable)
        IN  /\ IF user = NULL
               THEN last' = R(401, "Unauthorized") /\ UNCHANGED tables
               ELSE IF findEntry(expenseEntries, q.id, user) = NULL
               THEN last' = R(404, "Entry not found") /\ UNCHANGED tables
               ELSE /\ expenseEntries' = Remove(expenseEntries, {q.id})
                    /\ last' = R(200, "Entry deleted successfully")
                    /\ UNCHANGED <<incomeSources, expenseVerticals, savingsInstruments, incomeEntries, savingsEntries, nextId>>
            /\ UNCHANGED <<now, authVars, otpVars, inflight>>

-----------------------------------------------------------------------------
(* savings entries *)

\* Request bodies: a full entry per referenced id, an amount alone, a malformed
\* month, a zero amount, an amount above the maximum
SavingsEntryBodies ==
    {[month |-> "2024-01", instrumentId |-> r, amount |-> Dec(100, 0), notes |-> undefined] :
        r \in RequestIds(savingsInstruments)}
    \cup {[month |-> undefined, instrumentId |-> NULL, amount |-> Dec(250, 0), notes |-> "rent"],
          [month |-> "2024-13", instrumentId |-> NULL, amount |-> undefinedNumber, notes |-> undefined],
          [month |-> "2024-01", instrumentId |-> NULL, amount |-> Dec(0, 0), notes |-> undefined],
          [month |-> undefined, instrumentId |-> NULL, amount |-> Dec(1, 12), notes |-> undefined]}

\* findMany include: the entry with the selected fields of its instrument
includeSavingsEntry(entry) ==
    [instrument |-> selectInstrument(savingsInstruments, entry.instrumentId)] @@ entry

\* GET /api/savings
getSavingsEntries ==
    /\ Active("savings")
    /\ \E q \in Request("savings/list", {NULL}, MonthBodies) :
        LET user == getCurrentUser(q.caller)
            month == q.body.month
            R(status, msg, body) == LedgerResp("savings/list", user, NULL, status, msg, body)
            found == {e \in Ids(savingsEntries) :
                         /\ savingsEntries[e].userId = user
                         /\ month # "" => savingsEntries[e].month = month}
        IN  Answer(IF user = NULL THEN R(401, "Unauthorized", EmptyTable)
                   ELSE IF month # "" /\ ~monthSchema(month)
                   THEN R(400, "Invalid month format. Use YYYY-MM", EmptyTable)
                   ELSE R(200, "", [e \in found |-> includeSavingsEntry(savingsEntries[e])]))

\* POST /api/savings up to its database write
postSavingsEntryCheck(q) ==
    LET user == getCurrentUser(q.caller)
        error == createEntrySchema(q.body.month, q.body.instrumentId, q.body.amount)
        R(status, msg) == LedgerResp("savings/post", user, NULL, status, msg, EmptyTable)
    IN  IF user = NULL THEN R(401, "Unauthorized")
        ELSE IF error # "" THEN R(400, error)
        ELSE IF findUnique(savingsInstruments, q.body.instrumentId) = NULL
        THEN R(400, "Invalid savings instrument")
        ELSE Proceed

\* prisma.savingsEntry.create and the response
postSavingsEntryWrite(q) ==
    LET user == getCurrentUser(q.caller)
        entry == [month |-> q.body.month, instrumentId |-> q.body.instrumentId,
                  amount |-> q.body.amount, notes |-> q.body.notes, userId |-> user]
        R(id, status, msg, body) == LedgerResp("savings/post", user, id, status, msg, body)
    IN  IF ~foreignKey(savingsInstruments, q.body.instrumentId) \/ ~foreignKey(users, user)
        THEN /\ last' = R(NULL, 500, "Failed to create savings entry", EmptyTable)
             /\ UNCHANGED tables
        ELSE /\ nextId <= MaxIds
             /\ savingsEntries' = Insert(savingsEntries, nextId, entry)
             /\ nextId' = nextId + 1
             /\ last' = R(nextId, 201, "", Insert(EmptyTable, nextId, includeSavingsEntry(entry)))
             /\ UNCHANGED <<incomeSources, expenseVerticals, savingsInstruments, incomeEntries, expenseEntries>>

postSavingsEntry ==
    /\ Active("savings")
    /\ \E q \in Request("savings/post", {NULL}, SavingsEntryBodies) :
        Handle(postSavingsEntryCheck(q), postSavingsEntryWrite(q))

postSavingsEntryBegin ==
    /\ Active("savings")
    /\ \E q \in Request("savings/post", {NULL}, SavingsEntryBodies) : Begin(postSavingsEntryCheck(q), q)

\* GET /api/savings/[id]
getSavingsEntry ==
    /\ Active("savings")
    /\ \E q \in Request("savings/get", RequestIds(savingsEntries), {NoBody}) :
        LET user == getCurrentUser(q.caller)
            R(status, msg, body) == LedgerResp("savings/get", user, q.id, status, msg, body)
        IN  Answer(IF user = NULL THEN R(401, "Unauthorized", EmptyTable)
                   ELSE IF findEntry(savingsEntries, q.id, user) = NULL
                   THEN R(404, "Entry not found", EmptyTable)
                   ELSE R(200, "", Insert(EmptyTable, q.id, includeSavingsEntry(savingsEntries[q.id]))))

\* PUT /api/savings/[id] up to its database write
putSavingsEntryCheck(q) ==
    LET user == getCurrentUser(q.caller)
        error == updateEntrySchema(q.body.month, q.body.instrumentId, q.body.amount)
        R(status, msg) == LedgerResp("savings/put", user, q.id, status, msg, EmptyTable)
    IN  IF user = NULL THEN R(401, "Unauthorized")
        ELSE IF findEntry(savingsEntries, q.id, user) = NULL THEN R(404, "Entry not found")
        ELSE IF error # "" THEN R(400, error)
        ELSE IF q.body.instrumentId # NULL /\ findUnique(savingsInstruments, q.body.instrumentId) = NULL
        THEN R(400, "Invalid savings instrument")
        ELSE Proceed

\* prisma.savingsEntry.update({ where: { id } }) with the fields given, and the response
putSavingsEntryWrite(q) ==
    LET user == getCurrentUser(q.caller)
        old == savingsEntries[q.id]
        entry == [month |-> spread(q.body.month, undefined, old.month),
                  instrumentId |-> spread(q.body.instrumentId, NULL, old.instrumentId),
                  amount |-> spread(q.body.amount, undefinedNumber, old.amount),
                  notes |-> spread(q.body.notes, undefined, old.notes),
                  userId |-> old.userId]
        R(status, msg, body) == LedgerResp("savings/put", user, q.id, status, msg, body)
    IN  IF \/ q.id \notin Ids(savingsEntries)
           \/ (q.body.instrumentId # NULL /\ ~foreignKey(savingsInstruments, q.body.instrumentId))
        THEN /\ last' = R(500, "Failed to update savings entry", EmptyTable)
             /\ UNCHANGED tables
        ELSE /\ savingsEntries' = [savingsEntries EXCEPT ![q.id] = entry]
             /\ last' = R(200, "", Insert(EmptyTable, q.id, includeSavingsEntry(entry)))
             /\ UNCHANGED <<incomeSources, expenseVerticals, savingsInstruments, incomeEntries, expenseEntries, nextId>>

putSavingsEntry ==
    /\ Active("savings")
    /\ \E q \in Request("savings/put", RequestIds(savingsEntries), SavingsEntryBodies) :
        Handle(putSavingsEntryCheck(q), putSavingsEntryWrite(q))

putSavingsEntryBegin ==
    /\ Active("savings")
    /\ \E q \in Request("savings/put", RequestIds(savingsEntries), SavingsEntryBodies) : Begin(putSavingsEntryCheck(q), q)

\* DELETE /api/savings/[id]
deleteSavingsEntry ==
    /\ Active("savings")
    /\ \E q \in Request("savings/delete", RequestIds(savingsEntries), {NoBody}) :
        LET user == getCurrentUser(q.caller)
            R(status, msg) == LedgerResp("savings/delete", user, q.id, status, msg, EmptyTable)
        IN  /\ IF user = NULL
               THEN last' = R(401, "Unauthorized") /\ UNCHANGED tables
               ELSE IF findEntry(savingsEntries, q.id, user) = NULL
               THEN last' = R(404, "Entry not found") /\ UNCHANGED tables
               ELSE /\ savingsEntries' = Remove(savingsEntries, {q.id})
                    /\ last' = R(200, "Entry deleted successfully")
                    /\ UNCHANGED <<incomeSources, expenseVerticals, savingsInstruments, incomeEntries, expenseEntries, nextId>>
            /\ UNCHANGED <<now, authVars, otpVars, inflight>>


-----------------------------------------------------------------------------
(* Account deletion: api/auth/delete-account *)

\* The rows of t whose field is in ids
Referencing(t, field, ids) == {e \in Ids(t) : t[e][field] \in ids}

\* A deletion that takes the rows of every user
Owned_everyRow(t, userId) == Ids(t)

\* where: { userId }
Owned(t, userId) == Referencing(t, "userId", {userId})

\* ON DELETE CASCADE of LoginAttempt.userId
cascadeLoginAttempts(log, userId) == SelectSeq(log, LAMBDA row : row.userId # userId)

AccountResp(user, status, msg) ==
    Resp("delete-account", user, "", "", NULL, status, msg, EmptyTable)

\* DELETE /api/auth/delete-account: the entries of the user, the categories
\* of the user, the user.  The session is a signed token: it names the user
\* after the user is deleted.
deleteAccount ==
    \E caller \in Callers \cup {NULL} :
        LET userId == getCurrentUser(caller)
            incomeLeft == Remove(incomeEntries, Owned(incomeEntries, userId))
            expensesLeft == Remove(expenseEntries, Owned(expenseEntries, userId))
            savingsLeft == Remove(savingsEntries, Owned(savingsEntries, userId))
            sources == Owned(incomeSources, userId)
            verticals == Owned(expenseVerticals, userId)
            \* entries of other users that reference the categories of the user
            incomeRefs == Referencing(incomeLeft, "sourceId", sources)
            expenseRefs == Referencing(expensesLeft, "verticalId", verticals)
        IN  /\ IF userId = NULL
               THEN /\ last' = AccountResp(NULL, 401, "Unauthorized")
                    /\ UNCHANGED <<tables, authVars>>
               ELSE \E action \in OnDelete :
                    IF action = "Restrict" /\ incomeRefs # {}
                    THEN \* incomeSource.deleteMany throws
                         /\ incomeEntries' = incomeLeft
                         /\ expenseEntries' = expensesLeft
                         /\ savingsEntries' = savingsLeft
                         /\ last' = AccountResp(userId, 500, "Failed to delete account")
                         /\ UNCHANGED <<incomeSources, expenseVerticals, savingsInstruments,
                                        nextId, authVars>>
                    ELSE IF action = "Restrict" /\ expenseRefs # {}
                    THEN \* expenseVertical.deleteMany throws
                         /\ incomeEntries' = incomeLeft
                         /\ expenseEntries' = expensesLeft
                         /\ savingsEntries' = savingsLeft
                         /\ incomeSources' = Remove(incomeSources, sources)
                         /\ last' = AccountResp(userId, 500, "Failed to delete account")
                         /\ UNCHANGED <<expenseVerticals, savingsInstruments, nextId, authVars>>
                    ELSE /\ incomeEntries' = Remove(incomeLeft, incomeRefs)
                         /\ expenseEntries' = Remove(expensesLeft, expenseRefs)
                         /\ savingsEntries' = savingsLeft
                         /\ incomeSources' = Remove(incomeSources, sources)
                         /\ expenseVerticals' = Remove(expenseVerticals, verticals)
                         /\ UNCHANGED <<savingsInstruments, nextId>>
                         /\ IF userId \in Ids(users)
                            THEN /\ users' = Remove(users, {userId})
                                 /\ loginAttempts' = cascadeLoginAttempts(loginAttempts, userId)
                                 /\ last' = AccountResp(userId, 200, "Account deleted successfully")
                                 /\ UNCHANGED <<nextUserId, sessions>>
                            ELSE \* user.delete finds no row and throws
                                 /\ last' = AccountResp(userId, 500, "Failed to delete account")
                                 /\ UNCHANGED authVars
            /\ UNCHANGED <<now, otpVars, inflight>>

-----------------------------------------------------------------------------
(* Forgotten password: api/auth/forgot-password/verify-email, .../reset *)

\* SQL NULL of the nullable hash column securityAnswer
NoHash == <<>>

\* The demo user of prisma/seed.ts: no security question, no answer
SeededUser(email, password) ==
    [NewUser(email, password, "") EXCEPT !.securityQuestion = "", !.securityAnswer = NoHash]

\* String.length on the passwords the model uses
PasswordLen(s) ==
    CASE s = "" -> 0
      [] s = "pw1" -> 3
      [] s = "short" -> 5
      [] s = "newpass" -> 7
      [] s = "passw0rd" -> 8

\* resetPasswordSchema: the first error message, "" when the body is valid
resetPasswordSchema(email, securityAnswer, newPassword) ==
    IF ~isEmail(email) THEN "Invalid email address"
    ELSE IF securityAnswer = "" THEN "Security answer is required"
    ELSE IF PasswordLen(newPassword) < 6 THEN "Password must be at least 6 characters"
    ELSE ""

ResetEmails == {"a@x.io", "A@x.io", "b@x.io", "c@x.io", "bad"}

ResetAnswers == {"", "blue", "Blue ", "red"}

ResetPasswords == {"short", "newpass", "passw0rd"}

\* POST /api/auth/forgot-password/reset
resetPassword(e, securityAnswer, newPassword) ==
    LET R(user, status, msg) ==
            Resp("forgot-password/reset", user, e, securityAnswer, NULL, status, msg, EmptyTable)
        error == resetPasswordSchema(e, securityAnswer, newPassword)
        user == findUserByEmail(users, e)
    IN  /\ IF error # ""
           THEN /\ last' = R(NULL, 400, error)
                /\ UNCHANGED users
           ELSE IF user = NULL \/ users[user].securityAnswer = NoHash
           THEN /\ last' = R(NULL, 404, "Invalid email or security question not set")
                /\ UNCHANGED users
           ELSE IF ~compare(trim(toLowerCase(securityAnswer)), users[user].securityAnswer)
           THEN /\ last' = R(user, 401, "Incorrect security answer")
                /\ UNCHANGED users
           ELSE /\ users' = [users EXCEPT ![user].password = hash(newPassword)]
                /\ last' = R(user, 200, "Password reset successfully")
        /\ UNCHANGED <<now, nextUserId, sessions, loginAttempts, otpVars, ledgerVars>>

ResetPassword ==
    \E e \in ResetEmails, a \in ResetAnswers, p \in ResetPasswords : resetPassword(e, a, p)

\* POST /api/auth/forgot-password/verify-email
verifyEmail(e) ==
    LET R(user, status, msg) ==
            Resp("forgot-password/verify-email", user, e, "", NULL, status, msg, EmptyTable)
        user == findUserByEmail(users, e)
    IN  /\ IF e = ""
           THEN last' = R(NULL, 400, "Email is required")
           ELSE IF user = NULL \/ users[user].securityQuestion = ""
           THEN last' = R(NULL, 404,
                          "No account found with this email or no security question set")
           ELSE last' = R(user, 200, users[user].securityQuestion)
        /\ UNCHANGED <<now, authVars, otpVars, ledgerVars>>

VerifyEmail == \E e \in ResetEmails \cup {""} : verifyEmail(e)

-----------------------------------------------------------------------------
(* Overlapping logins *)

\* authorize with a wrong password, up to the await of the update of
\* handleFailedLogin: the account is not locked, the user is found, the
\* password is compared, the counter is read.  The login is in flight with
\* the counter it read.
authorizeBegin(e, p) ==
    LET email == toLowerCase(e)
        user == findUserByEmail(users, email)
    IN  /\ Cardinality(inflight) < MaxInflight
        /\ Len(loginAttempts) + Cardinality(inflight) + 1 < MaxLoginRows
        /\ e # "" /\ p # ""
        /\ ~checkAccountLockout(users, email, now)
        /\ user # NULL
        /\ ~compare(p, users[user].password)
        /\ inflight' = inflight \cup
               {[op |-> "authorize", caller |-> NULL, id |-> user,
                 body |-> [email |-> e, password |-> p,
                           failedLoginAttempts |-> users[user].failedLoginAttempts]]}
        /\ UNCHANGED <<now, authVars, otpVars, tables, last>>

AuthorizeBegin == \E e \in AuthEmails, p \in AuthPasswords : authorizeBegin(e, p)

\* The rest of a login in flight: the update, the row of the log, the
\* second lockout check and the error
authorizeEnd ==
    \E q \in inflight :
        LET email == toLowerCase(q.body.email)
            R(msg) == Resp("authorize", NULL, q.body.email, q.body.password, NULL, 0, msg,
                           EmptyTable)
        IN  /\ q.op = "authorize"
            /\ users' = updateFailedLogin(users, q.id, q.body.failedLoginAttempts, now)
            /\ loginAttempts' =
                   logLoginAttempt(loginAttempts, email, q.id, FALSE, "invalid_password")
            /\ last' = IF checkAccountLockout(users', email, now)
                       THEN R("Too many failed attempts. Account locked")
                       ELSE R("Invalid email or password")
            /\ inflight' = inflight \ {q}
            /\ UNCHANGED <<now, nextUserId, sessions, otpVars, tables>>

-----------------------------------------------------------------------------
(* Overlapping OTP verifications *)

\* otp/verify up to the await of its update: the row is read, it is not
\* expired, its attempts are below the limit, the code is compared.  The
\* request is in flight with the row it read and the result of the
\* comparison.
verifyOtpBegin(e, otp) ==
    LET normalizedEmail == toLowerCase(e)
        pending == PendingFor(emailVerifications, normalizedEmail)
    IN  /\ Cardinality(inflight) < MaxInflight
        /\ isEmail(e)
        /\ StrLen(otp) = 6
        /\ \E v \in Latest(emailVerifications, pending) :
            LET verification == emailVerifications[v]
            IN  /\ ~otpExpired(verification, now)
                /\ ~attemptsExhausted(verification)
                /\ inflight' = inflight \cup
                       {[op |-> "otp/verify", caller |-> NULL, id |-> v,
                         body |-> [email |-> e, otp |-> otp,
                                   attempts |-> verification.attempts,
                                   matches |-> (verification.otp = otp)]]}
        /\ UNCHANGED <<now, authVars, otpVars, tables, last>>

VerifyOtpBegin == \E e \in OtpEmails, otp \in OtpInputs : verifyOtpBegin(e, otp)

\* The rest of a verification in flight: the increment of the attempts or
\* the mark, and the response; an update of a row that is gone throws
verifyOtpEnd ==
    \E q \in inflight :
        LET R(status, msg) ==
                Resp("otp/verify", NULL, q.body.email, q.body.otp, NULL, status, msg, EmptyTable)
        IN  /\ q.op = "otp/verify"
            /\ IF q.id \notin Ids(emailVerifications)
               THEN /\ last' = R(500, "Failed to verify code")
                    /\ UNCHANGED emailVerifications
               ELSE IF ~q.body.matches
               THEN /\ emailVerifications' =
                          [emailVerifications EXCEPT ![q.id].attempts = @ + 1]
                    /\ last' = WithCount(R(400, "Invalid verification code"),
                                         MAX_ATTEMPTS - q.body.attempts - 1)
               ELSE /\ emailVerifications' =
                          [emailVerifications EXCEPT ![q.id].verified = TRUE]
                    /\ last' = R(200, "Email verified successfully")
            /\ inflight' = inflight \ {q}
            /\ UNCHANGED <<now, authVars, nextVerificationId, outbox, tables>>

-----------------------------------------------------------------------------
(* Dashboard and export: api/dashboard, api/export, lib/utils *)

\* str.split(sep), on the characters of str
RECURSIVE split(_, _)
split(cs, sep) ==
    IF \A i \in 1..Len(cs) : cs[i] # sep THEN <<cs>>
    ELSE LET at == CHOOSE i \in 1..Len(cs) : cs[i] = sep /\ \A j \in 1..(i - 1) : cs[j] # sep
         IN  <<SubSeq(cs, 1, at - 1)>> \o split(SubSeq(cs, at + 1, Len(cs)), sep)

DigitValue(c) ==
    CASE c = "0" -> 0 [] c = "1" -> 1 [] c = "2" -> 2 [] c = "3" -> 3 [] c = "4" -> 4
      [] c = "5" -> 5 [] c = "6" -> 6 [] c = "7" -> 7 [] c = "8" -> 8 [] c = "9" -> 9

DigitChar(n) == CHOOSE c \in Digits : DigitValue(c) = n

\* Number(str), for a string of decimal digits
RECURSIVE Number(_)
Number(cs) ==
    IF cs = <<>> THEN 0
    ELSE 10 * Number(SubSeq(cs, 1, Len(cs) - 1)) + DigitValue(cs[Len(cs)])

\* String(n), for a natural number n
RECURSIVE String(_)
String(n) ==
    IF n < 10 THEN <<DigitChar(n)>> ELSE String(n \div 10) \o <<DigitChar(n % 10)>>

\* str.padStart(targetLength, pad), pad a single character
RECURSIVE padStart(_, _, _)
padStart(cs, targetLength, pad) ==
    IF Len(cs) >= targetLength THEN cs ELSE padStart(<<pad>> \o cs, targetLength, pad)

\* The while loop of getMonthsList
RECURSIVE monthsFrom(_, _, _, _)
monthsFrom(currentYear, currentMonth, toYear, toMonth) ==
    IF currentYear < toYear \/ (currentYear = toYear /\ currentMonth <= toMonth)
    THEN <<string(String(currentYear) \o <<"-">> \o padStart(String(currentMonth), 2, "0"))>>
         \o (IF currentMonth + 1 > 12
             THEN monthsFrom(currentYear + 1, 1, toYear, toMonth)
             ELSE monthsFrom(currentYear, currentMonth + 1, toYear, toMonth))
    ELSE <<>>

\* getMonthsList(from, to): the months from from to to, as strings
getMonthsList(from, to) ==
    LET fromParts == split(chars(from), "-")
        toParts == split(chars(to), "-")
    IN  monthsFrom(Number(fromParts[1]), Number(fromParts[2]),
                   Number(toParts[1]), Number(toParts[2]))

\* dashboardQuerySchema: the first error message, "" when the query is valid
dashboardQuerySchema(from, to) ==
    IF ~monthSchema(from) \/ ~monthSchema(to) THEN "Month must be in YYYY-MM format" ELSE ""

ExportTypes == {"income", "expenses", "savings", "summary"}

\* exportQuerySchema: the first error message, "" when the query is valid
exportQuerySchema(month, type) ==
    IF ~monthSchema(month) THEN "Month must be in YYYY-MM format"
    ELSE IF type \notin ExportTypes THEN "Invalid enum value"
    ELSE ""

\* savingsCategoryLabel(category)
savingsCategoryLabel(category) ==
    CASE category = "FD_RD" -> "Bank Deposits"
      [] category = "NPS_PPF" -> "Retirement & Tax"
      [] category = "STOCKS_ETFS" -> "Equities"
      [] category = "MF" -> "Mutual Funds"
      [] OTHER -> category

\* The ids of a set in ascending order: rows come back in the order of their
\* creation (ids are handed out in that order)
RECURSIVE ascending(_)
ascending(ids) ==
    IF ids = {} THEN <<>>
    ELSE LET low == CHOOSE i \in ids : \A j \in ids : i <= j
         IN  <<low>> \o ascending(ids \ {low})

Reverse(s) == [i \in 1..Len(s) |-> s[Len(s) + 1 - i]]

Contains(s, x) == \E i \in 1..Len(s) : s[i] = x

\* prisma.<entry>.findMany({ where: { userId, month: { in: months } },
\* include: { <category>: { select: { name, category } } } }): the rows with
\* the amount as the double the Float column holds
findMany(entries, field, cats, userId, months) ==
    LET found == ascending({e \in Ids(entries) :
                               entries[e].userId = userId /\ Contains(months, entries[e].month)})
    IN  [i \in 1..Len(found) |->
            [id |-> found[i],
             month |-> entries[found[i]].month,
             amount |-> toDouble(entries[found[i]].amount),
             notes |-> entries[found[i]].notes,
             name |-> cats[entries[found[i]][field]].name,
             category |-> IF field = "instrumentId"
                          THEN cats[entries[found[i]][field]].category ELSE undefined]]

amounts(rows) == [i \in 1..Len(rows) |-> rows[i].amount]

names(rows) == [i \in 1..Len(rows) |-> rows[i].name]

categories(rows) == [i \in 1..Len(rows) |-> rows[i].category]

\* xs.reduce((sum, x) => sum + x, 0)
reduceSum[xs \in Seq(Doubles)] ==
    IF xs = <<>> THEN Zero ELSE Add[reduceSum[SubSeq(xs, 1, Len(xs) - 1)], xs[Len(xs)]]

\* rows.reduce((sum, e) => sum + e.amount, 0)
sumAmounts(rows) == reduceSum[amounts(rows)]

\* rows.filter((e) => e.month === month)
filterMonth(rows, month) == SelectSeq(rows, LAMBDA e : e.month = month)

\* acc[key] = (acc[key] || 0) + amount, acc as Object.entries lists it: the
\* keys in the order of their first assignment.  (No category of the model
\* has a name that is a number or a property of Object.prototype.)
accumulate[acc \in Seq([name : STRING, amount : Doubles]), key \in STRING, amount \in Doubles] ==
    IF \E i \in 1..Len(acc) : acc[i].name = key
    THEN [i \in 1..Len(acc) |->
             IF acc[i].name = key
             THEN [acc[i] EXCEPT !.amount = Add[acc[i].amount, amount]]
             ELSE acc[i]]
    ELSE Append(acc, [name |-> key, amount |-> Add[Zero, amount]])

\* rows.reduce((acc, e) => { acc[key] = (acc[key] || 0) + e.amount; return acc }, {})
\* for the keys and the amounts of the rows
sumBy[keys \in Seq(STRING), xs \in Seq(Doubles)] ==
    IF keys = <<>> THEN <<>>
    ELSE accumulate[sumBy[SubSeq(keys, 1, Len(keys) - 1), SubSeq(xs, 1, Len(keys) - 1)],
                    keys[Len(keys)], xs[Len(keys)]]

\* Mutant: the rate rounded to one decimal
roundRate_oneDecimal(rate) == Div[MathRound[Times[rate, 10]], fromInt(10)]

\* Math.round(rate * 100) / 100
roundRate(rate) == Div[MathRound[Times[rate, 100]], fromInt(100)]

\* totalIncome > 0 ? (value / totalIncome) * 100 : 0
rateOf(value, totalIncome) ==
    IF isPositive(totalIncome) THEN Times[Div[value, totalIncome], 100] ELSE Zero

DashboardResp(user, status, msg, query, json) ==
    Resp("dashboard", user, "", "", NULL, status, msg, [query |-> query, json |-> json])

NoJson == [summary |-> undefined]

\* .map(([category, amount]) => ({ category, amount }))
byCategory(sums) ==
    [i \in 1..Len(sums) |-> [category |-> sums[i].name, amount |-> sums[i].amount]]

\* The aggregation of the dashboard over the rows of a user
dashboardJson(months, incomeRows, expenseRows, savingsRows) ==
    LET totalIncome == sumAmounts(incomeRows)
        totalExpenses == sumAmounts(expenseRows)
        totalSavings == sumAmounts(savingsRows)
        netCashFlow == Sub[Sub[totalIncome, totalExpenses], totalSavings]
        savingsRate == rateOf(totalSavings, totalIncome)
        expenseRatio == rateOf(totalExpenses, totalIncome)
        monthlyData ==
            [i \in 1..Len(months) |->
                LET monthIncome == sumAmounts(filterMonth(incomeRows, months[i]))
                    monthExpenses == sumAmounts(filterMonth(expenseRows, months[i]))
                    monthSavings == sumAmounts(filterMonth(savingsRows, months[i]))
                IN  [month |-> months[i],
                     income |-> monthIncome,
                     expenses |-> monthExpenses,
                     savings |-> monthSavings,
                     netCashFlow |-> Sub[Sub[monthIncome, monthExpenses], monthSavings]]]
    IN  [summary |-> [totalIncome |-> totalIncome,
                      totalExpenses |-> totalExpenses,
                      totalSavings |-> totalSavings,
                      netCashFlow |-> netCashFlow,
                      savingsRate |-> roundRate(savingsRate),
                      expenseRatio |-> roundRate(expenseRatio)],
         monthlyData |-> monthlyData,
         breakdowns |-> [incomeBySource |-> sumBy[names(incomeRows), amounts(incomeRows)],
                         expensesByVertical |-> sumBy[names(expenseRows), amounts(expenseRows)],
                         savingsByCategory |-> byCategory(sumBy[categories(savingsRows), amounts(savingsRows)]),
                         savingsByInstrument |-> sumBy[names(savingsRows), amounts(savingsRows)]]]

\* GET /api/dashboard?from=&to=
dashboardResponse(q) ==
    LET user == getCurrentUser(q.caller)
        from == q.body.from
        to == q.body.to
        months == getMonthsList(from, to)
        R(status, msg, json) == DashboardResp(user, status, msg, q.body, json)
    IN  IF user = NULL THEN R(401, "Unauthorized", NoJson)
        ELSE IF from = "" \/ to = ""
        THEN R(400, "Both from and to parameters are required", NoJson)
        ELSE IF dashboardQuerySchema(from, to) # ""
        THEN R(400, dashboardQuerySchema(from, to), NoJson)
        ELSE R(200, "", dashboardJson(months,
                   findMany(incomeEntries, "sourceId", incomeSources, user, months),
                   findMany(expenseEntries, "verticalId", expenseVerticals, user, months),
                   findMany(savingsEntries, "instrumentId", savingsInstruments, user, months)))

\* The queries of the model: the months of the entries, a range that ends
\* before it starts, a malformed month, a missing parameter
DashboardQueries ==
    {[from |-> f, to |-> t] : f, t \in {"2023-12", "2024-01", "2024-02"}}
    \cup {[from |-> "0999-12", to |-> "0999-12"],
          [from |-> "2024-01", to |-> "2024-13"],
          [from |-> "", to |-> "2024-01"]}

getDashboard ==
    \E q \in Request("dashboard", {NULL}, DashboardQueries) : Answer(dashboardResponse(q))

\* A cell of a CSV row: a string by its characters, a number, or null
Str(cs) == [type |-> "string", value |-> cs]

Num(x) == [type |-> "number", value |-> x]

Null == [type |-> "null", value |-> <<>>]

\* str.includes(c)
includes(cs, c) == \E i \in 1..Len(cs) : cs[i] = c

\* str.replace(/"/g, '""')
RECURSIVE doubleQuotes(_)
doubleQuotes(cs) ==
    IF cs = <<>> THEN <<>>
    ELSE (IF cs[1] = "\"" THEN <<"\"", "\"">> ELSE <<cs[1]>>)
         \o doubleQuotes(SubSeq(cs, 2, Len(cs)))

\* Mutant: a field with a quote wrapped, its quotes left single
escapeCsvField_quotesKept(field) ==
    IF field.type = "null" THEN <<>>
    ELSE LET str == IF field.type = "number" THEN numberToString(field.value) ELSE field.value
         IN  IF includes(str, ",") \/ includes(str, "\"") \/ includes(str, "\n")
             THEN <<"\"">> \o str \o <<"\"">>
             ELSE str

\* escapeCsvField(field)
escapeCsvField(field) ==
    IF field.type = "null" THEN <<>>
    ELSE LET str == IF field.type = "number" THEN numberToString(field.value) ELSE field.value
         IN  IF includes(str, ",") \/ includes(str, "\"") \/ includes(str, "\n")
             THEN <<"\"">> \o doubleQuotes(str) \o <<"\"">>
             ELSE str

\* strings.join(sep)
RECURSIVE join(_, _)
join(strs, sep) ==
    IF strs = <<>> THEN <<>>
    ELSE IF Len(strs) = 1 THEN strs[1]
    ELSE strs[1] \o <<sep>> \o join(SubSeq(strs, 2, Len(strs)), sep)

\* arrayToCsv(headers, rows)
arrayToCsv(headers, rows) ==
    LET line(row) == join([i \in 1..Len(row) |-> escapeCsvField(row[i])], ",")
    IN  join(<<line(headers)>> \o [i \in 1..Len(rows) |-> line(rows[i])], "\n")

ExportResp(user, status, msg, query, csv) ==
    Resp("export", user, "", "", NULL, status, msg, [query |-> query, csv |-> csv])

\* e.createdAt.toISOString(): the instant an entry was created, which its id
\* stands for in the model
toISOString(id) == <<"T">> \o String(id)

Text(str) == Str(chars(str))

notesCell(notes) == IF notes = undefined THEN Null ELSE Text(notes)

\* The rows of an income, expenses or savings export
entryRows(rows, withCategory) ==
    [i \in 1..Len(rows) |->
        <<Text(rows[i].month)>>
        \o (IF withCategory THEN <<Text(savingsCategoryLabel(rows[i].category))>> ELSE <<>>)
        \o <<Text(rows[i].name), Num(rows[i].amount), notesCell(rows[i].notes),
             Str(toISOString(rows[i].id))>>]

\* The breakdown rows of a summary export: `  ${name}` and the amount
breakdownRows(sums) ==
    [i \in 1..Len(sums) |-> <<Str(<<" ", " ">> \o chars(sums[i].name)), Num(sums[i].amount)>>]

labels(rows) == [i \in 1..Len(rows) |-> savingsCategoryLabel(rows[i].category)]

\* The rows of a summary export
summaryRows(month, incomeRows, expenseRows, savingsRows) ==
    LET totalIncome == sumAmounts(incomeRows)
        totalExpenses == sumAmounts(expenseRows)
        totalSavings == sumAmounts(savingsRows)
        netCashFlow == Sub[Sub[totalIncome, totalExpenses], totalSavings]
        savingsRate == rateOf(totalSavings, totalIncome)
        expenseRatio == rateOf(totalExpenses, totalIncome)
    IN  <<<<Text("Month"), Text(month)>>,
          <<Text("Total Income"), Num(totalIncome)>>,
          <<Text("Total Expenses"), Num(totalExpenses)>>,
          <<Text("Total Savings"), Num(totalSavings)>>,
          <<Text("Net Cash Flow"), Num(netCashFlow)>>,
          <<Text("Savings Rate (%)"), Num(roundRate(savingsRate))>>,
          <<Text("Expense Ratio (%)"), Num(roundRate(expenseRatio))>>,
          <<Text(""), Text("")>>,
          <<Text("Income Breakdown"), Text("")>>>>
        \o breakdownRows(sumBy[names(incomeRows), amounts(incomeRows)])
        \o <<<<Text(""), Text("")>>, <<Text("Expense Breakdown"), Text("")>>>>
        \o breakdownRows(sumBy[names(expenseRows), amounts(expenseRows)])
        \o <<<<Text(""), Text("")>>, <<Text("Savings Breakdown"), Text("")>>>>
        \o breakdownRows(sumBy[labels(savingsRows), amounts(savingsRows)])

\* GET /api/export?month=&type=
exportResponse(q) ==
    LET user == getCurrentUser(q.caller)
        month == q.body.month
        type == q.body.type
        R(status, msg, csv) == ExportResp(user, status, msg, q.body, csv)
        incomeRows == findMany(incomeEntries, "sourceId", incomeSources, user, <<month>>)
        expenseRows == findMany(expenseEntries, "verticalId", expenseVerticals, user, <<month>>)
        savingsRows == findMany(savingsEntries, "instrumentId", savingsInstruments, user, <<month>>)
    IN  IF user = NULL THEN R(401, "Unauthorized", <<>>)
        ELSE IF month = "" \/ type = ""
        THEN R(400, "Both month and type parameters are required", <<>>)
        ELSE IF exportQuerySchema(month, type) # ""
        THEN R(400, exportQuerySchema(month, type), <<>>)
        ELSE IF type = "income"
        THEN R(200, "", arrayToCsv(<<Text("Month"), Text("Source"), Text("Amount"),
                                     Text("Notes"), Text("Created At")>>,
                                   entryRows(Reverse(incomeRows), FALSE)))
        ELSE IF type = "expenses"
        THEN R(200, "", arrayToCsv(<<Text("Month"), Text("Vertical"), Text("Amount"),
                                     Text("Notes"), Text("Created At")>>,
                                   entryRows(Reverse(expenseRows), FALSE)))
        ELSE IF type = "savings"
        THEN R(200, "", arrayToCsv(<<Text("Month"), Text("Category"), Text("Instrument"),
                                     Text("Amount"), Text("Notes"), Text("Created At")>>,
                                   entryRows(Reverse(savingsRows), TRUE)))
        ELSE R(200, "", arrayToCsv(<<Text("Metric"), Text("Value")>>,
                                   summaryRows(month, incomeRows, expenseRows, savingsRows)))

\* The queries of the model
ExportQueries ==
    {[month |-> m, type |-> "summary"] : m \in {"2023-12", "2024-01", "2024-02", "0999-12"}}
    \cup {[month |-> "2024-01", type |-> t] : t \in {"income", "expenses", "savings", "pdf", ""}}
    \cup {[month |-> "2024-13", type |-> "summary"]}

getExport ==
    \E q \in Request("export", {NULL}, ExportQueries) : Answer(exportResponse(q))

\* The ledgers the dashboard and the export are followed from.  Every entry
\* is one a POST of its owner stores: a month of monthSchema, a positive
\* amount, a category of the owner.
Source(name, userId) == [name |-> name, userId |-> userId, isDefault |-> FALSE]

Instrument(name, category) == [name |-> name, category |-> category, isDefault |-> FALSE]

IncomeEntry(month, sourceId, amount, userId) ==
    [month |-> month, sourceId |-> sourceId, amount |-> amount, notes |-> undefined,
     userId |-> userId]

ExpenseEntry(month, verticalId, amount, userId) ==
    [month |-> month, verticalId |-> verticalId, amount |-> amount, notes |-> undefined,
     userId |-> userId]

SavingsEntry(month, instrumentId, amount, userId) ==
    [month |-> month, instrumentId |-> instrumentId, amount |-> amount, notes |-> undefined,
     userId |-> userId]

Table(rows) == [i \in 10..(9 + Len(rows)) |-> rows[i - 9]]

\* A new user with one income source and no entries
LedgerNew ==
    [incomeSources |-> Insert(EmptyTable, 1, Source("Salary", 1)),
     expenseVerticals |-> EmptyTable,
     savingsInstruments |-> EmptyTable,
     incomeEntries |-> EmptyTable,
     expenseEntries |-> EmptyTable,
     savingsEntries |-> EmptyTable,
     nextId |-> 2]

\* Amounts with a fraction, over two months and two sources
LedgerFractions ==
    [incomeSources |-> Table(<<Source("Salary", 1), Source("Rent", 1)>>),
     expenseVerticals |-> Table(<<Source("Rent", 1)>>),
     savingsInstruments |-> EmptyTable,
     incomeEntries |-> Table(<<IncomeEntry("2024-01", 10, Dec(1, -1), 1),
                               IncomeEntry("2024-01", 10, Dec(1, -1), 1),
                               IncomeEntry("2024-02", 11, Dec(1, -1), 1),
                               IncomeEntry("2024-02", 11, Dec(9, -1), 1)>>),
     expenseEntries |-> Table(<<ExpenseEntry("2024-02", 10, Dec(25, -2), 1)>>),
     savingsEntries |-> EmptyTable,
     nextId |-> 20]

\* All three kinds, for two users, one of them without income
LedgerRates ==
    [incomeSources |-> Table(<<Source("Salary", 1)>>),
     expenseVerticals |-> Table(<<Source("Rent", 1)>>),
     savingsInstruments |-> Table(<<Instrument("PPF", "NPS_PPF"), Instrument("Nifty", "MF")>>),
     incomeEntries |-> Table(<<IncomeEntry("2024-01", 10, Dec(160, 0), 1),
                               IncomeEntry("2024-02", 10, Dec(300, 0), 1)>>),
     expenseEntries |-> Table(<<ExpenseEntry("2024-01", 10, Dec(100, 0), 1),
                                ExpenseEntry("2024-02", 10, Dec(200, 0), 1)>>),
     savingsEntries |-> Table(<<SavingsEntry("2024-01", 10, Dec(23, 0), 1),
                                SavingsEntry("2023-12", 11, Dec(50, 0), 2),
                                SavingsEntry("2023-12", 10, Dec(50, 0), 2)>>),
     nextId |-> 20]

Ledgers == {LedgerNew, LedgerFractions, LedgerRates}

InitDashboard ==
    /\ now = 0
    /\ users = Insert(Insert(EmptyTable, 1, NewUser("a@x.io", "pw1", "blue")),
                      2, NewUser("b@x.io", "pw2", "red"))
    /\ nextUserId = 3
    /\ sessions = {1, 2}
    /\ loginAttempts = <<>>
    /\ emailVerifications = EmptyTable
    /\ nextVerificationId = 1
    /\ outbox = 0
    /\ \E ledger \in Ledgers :
        /\ incomeSources = ledger.incomeSources
        /\ expenseVerticals = ledger.expenseVerticals
        /\ savingsInstruments = ledger.savingsInstruments
        /\ incomeEntries = ledger.incomeEntries
        /\ expenseEntries = ledger.expenseEntries
        /\ savingsEntries = ledger.savingsEntries
        /\ nextId = ledger.nextId
    /\ inflight = {}
    /\ last = NoRequest

\* The income entries created while the dashboard is followed
DashboardEntryBodies ==
    {[month |-> m, sourceId |-> r, amount |-> Dec(250, 0), notes |-> undefined] :
        m \in {"2024-01", "0999-12"}, r \in Ids(incomeSources)}

\* POST /api/income
postIncomeEntryOfMonth ==
    \E q \in Request("income/post", {NULL}, DashboardEntryBodies) :
        Handle(postIncomeEntryCheck(q), postIncomeEntryWrite(q))

NextDashboard == postIncomeEntryOfMonth \/ getDashboard \/ getExport

SpecDashboard == InitDashboard /\ [][NextDashboard]_vars

-----------------------------------------------------------------------------
(* arrayToCsv as a function of its arguments *)

\* The characters of the fields: a letter and the characters of the CSV syntax
CsvChars == {"a", ",", "\"", "\n", "\r"}

MaxFieldLen == 2

\* The texts of at most n characters
Texts(n) == UNION {[1..k -> CsvChars] : k \in 0..n}

\* headers: string[], one header; rows: one row of two cells
CsvHeaders == {<<Str(h)>> : h \in Texts(MaxFieldLen)}

CsvCells == {Str(h) : h \in Texts(1)} \cup {Null, Num(fromInt(1)), Num(toDouble(Dec(25, -2)))}

CsvRows == {<<<<c, d>>>> : c \in CsvCells, d \in CsvCells}

CsvInput(headers, rows) ==
    Resp("csv/input", NULL, "", "", NULL, 0, "", [headers |-> headers, rows |-> rows])

InitCsv ==
    /\ now = 0
    /\ users = EmptyTable
    /\ nextUserId = 1
    /\ sessions = {}
    /\ loginAttempts = <<>>
    /\ emailVerifications = EmptyTable
    /\ nextVerificationId = 1
    /\ outbox = 0
    /\ incomeSources = EmptyTable
    /\ expenseVerticals = EmptyTable
    /\ savingsInstruments = EmptyTable
    /\ incomeEntries = EmptyTable
    /\ expenseEntries = EmptyTable
    /\ savingsEntries = EmptyTable
    /\ nextId = 1
    /\ inflight = {}
    /\ \E headers \in CsvHeaders, rows \in CsvRows : last = CsvInput(headers, rows)

\* csv = arrayToCsv(headers, rows)
writeCsv ==
    /\ last.op = "csv/input"
    /\ last' = Resp("csv/arrayToCsv", NULL, "", "", NULL, 0, "",
                    [headers |-> last.body.headers, rows |-> last.body.rows,
                     csv |-> arrayToCsv(last.body.headers, last.body.rows)])
    /\ UNCHANGED <<now, authVars, otpVars, ledgerVars>>

NextCsv == writeCsv

SpecCsv == InitCsv /\ [][NextCsv]_vars

-----------------------------------------------------------------------------
(* The ledger specifications *)

\* Two registered users, both signed in, and an empty ledger
InitLedger ==
    /\ now = 0
    /\ users = Insert(Insert(EmptyTable, 1, NewUser("a@x.io", "pw1", "blue")),
                      2, NewUser("b@x.io", "pw2", "red"))
    /\ nextUserId = 3
    /\ sessions = {1, 2}
    /\ loginAttempts = <<>>
    /\ emailVerifications = EmptyTable
    /\ nextVerificationId = 1
    /\ outbox = 0
    /\ incomeSources = EmptyTable
    /\ expenseVerticals = EmptyTable
    /\ savingsInstruments = EmptyTable
    /\ incomeEntries = EmptyTable
    /\ expenseEntries = EmptyTable
    /\ savingsEntries = EmptyTable
    /\ nextId = 1
    /\ inflight = {}
    /\ last = NoRequest

\* Every request handled without interruption
NextLedger ==
    \/ getIncomeSources \/ postIncomeSource \/ putIncomeSource \/ deleteIncomeSource
    \/ getExpenseVerticals \/ postExpenseVertical \/ putExpenseVertical \/ deleteExpenseVertical
    \/ getSavingsInstruments \/ postSavingsInstrument \/ putSavingsInstrument
    \/ deleteSavingsInstrument
    \/ getIncomeEntries \/ postIncomeEntry \/ getIncomeEntry \/ putIncomeEntry \/ deleteIncomeEntry
    \/ getExpenseEntries \/ postExpenseEntry \/ getExpenseEntry \/ putExpenseEntry
    \/ deleteExpenseEntry
    \/ getSavingsEntries \/ postSavingsEntry \/ getSavingsEntry \/ putSavingsEntry
    \/ deleteSavingsEntry

SpecLedger == InitLedger /\ [][NextLedger]_vars

\* The database write of a request in flight, and the handler's response
commit ==
    \E q \in inflight :
        /\ CASE q.op = "income/post" -> postIncomeEntryWrite(q)
             [] q.op = "income/put" -> putIncomeEntryWrite(q)
             [] q.op = "income-sources/delete" -> deleteIncomeSourceWrite(q)
             [] q.op = "expenses/post" -> postExpenseEntryWrite(q)
             [] q.op = "expenses/put" -> putExpenseEntryWrite(q)
             [] q.op = "expense-verticals/delete" -> deleteExpenseVerticalWrite(q)
             [] q.op = "savings/post" -> postSavingsEntryWrite(q)
             [] q.op = "savings/put" -> putSavingsEntryWrite(q)
             [] q.op = "savings-instruments/delete" -> deleteSavingsInstrumentWrite(q)
             [] q.op = "income-sources/post" -> postIncomeSourceWrite(q)
             [] q.op = "income-sources/put" -> putIncomeSourceWrite(q)
             [] q.op = "expense-verticals/post" -> postExpenseVerticalWrite(q)
             [] q.op = "expense-verticals/put" -> putExpenseVerticalWrite(q)
             [] q.op = "savings-instruments/post" -> postSavingsInstrumentWrite(q)
             [] q.op = "savings-instruments/put" -> putSavingsInstrumentWrite(q)
        /\ inflight' = inflight \ {q}
        /\ UNCHANGED <<now, authVars, otpVars>>

\* A handler that checks and then writes, for a request that passes the
\* checks, without interruption.  (A request that fails a check is answered
\* at once and writes nothing; SpecLedger follows those.)
Passed(check, write) ==
    /\ check = Proceed
    /\ write
    /\ UNCHANGED <<now, authVars, otpVars, inflight>>

postIncomeEntryAtOnce ==
    /\ Active("income")
    /\ \E q \in Request("income/post", {NULL}, IncomeEntryBodies) :
        Passed(postIncomeEntryCheck(q), postIncomeEntryWrite(q))

putIncomeEntryAtOnce ==
    /\ Active("income")
    /\ \E q \in Request("income/put", RequestIds(incomeEntries), IncomeEntryBodies) :
        Passed(putIncomeEntryCheck(q), putIncomeEntryWrite(q))

deleteIncomeSourceAtOnce ==
    /\ Active("income")
    /\ \E q \in Request("income-sources/delete", RequestIds(incomeSources), {NoBody}) :
        Passed(deleteIncomeSourceCheck(q), deleteIncomeSourceWrite(q))

postExpenseEntryAtOnce ==
    /\ Active("expenses")
    /\ \E q \in Request("expenses/post", {NULL}, ExpenseEntryBodies) :
        Passed(postExpenseEntryCheck(q), postExpenseEntryWrite(q))

putExpenseEntryAtOnce ==
    /\ Active("expenses")
    /\ \E q \in Request("expenses/put", RequestIds(expenseEntries), ExpenseEntryBodies) :
        Passed(putExpenseEntryCheck(q), putExpenseEntryWrite(q))

deleteExpenseVerticalAtOnce ==
    /\ Active("expenses")
    /\ \E q \in Request("expense-verticals/delete", RequestIds(expenseVerticals), {NoBody}) :
        Passed(deleteExpenseVerticalCheck(q), deleteExpenseVerticalWrite(q))

postSavingsEntryAtOnce ==
    /\ Active("savings")
    /\ \E q \in Request("savings/post", {NULL}, SavingsEntryBodies) :
        Passed(postSavingsEntryCheck(q), postSavingsEntryWrite(q))

putSavingsEntryAtOnce ==
    /\ Active("savings")
    /\ \E q \in Request("savings/put", RequestIds(savingsEntries), SavingsEntryBodies) :
        Passed(putSavingsEntryCheck(q), putSavingsEntryWrite(q))

deleteSavingsInstrumentAtOnce ==
    /\ Active("savings")
    /\ \E q \in Request("savings-instruments/delete", RequestIds(savingsInstruments), {NoBody}) :
        Passed(deleteSavingsInstrumentCheck(q), deleteSavingsInstrumentWrite(q))

\* Requests that overlap: a handler that checks and then writes may have
\* other requests handled between its checks and its write.  (The rename of
\* a category writes no reference and no owner; SpecLedger follows it.)
NextInterleaved ==
    \/ postIncomeSource \/ deleteIncomeSourceAtOnce
    \/ postExpenseVertical \/ deleteExpenseVerticalAtOnce
    \/ postSavingsInstrument \/ deleteSavingsInstrumentAtOnce
    \/ postIncomeEntryAtOnce \/ putIncomeEntryAtOnce \/ deleteIncomeEntry
    \/ postExpenseEntryAtOnce \/ putExpenseEntryAtOnce \/ deleteExpenseEntry
    \/ postSavingsEntryAtOnce \/ putSavingsEntryAtOnce \/ deleteSavingsEntry
    \/ postIncomeEntryBegin \/ putIncomeEntryBegin \/ deleteIncomeSourceBegin
    \/ postExpenseEntryBegin \/ putExpenseEntryBegin \/ deleteExpenseVerticalBegin
    \/ postSavingsEntryBegin \/ putSavingsEntryBegin \/ deleteSavingsInstrumentBegin
    \/ commit

SpecInterleaved == InitLedger /\ [][NextInterleaved]_vars

\* Category creates and renames that overlap
NextCategories ==
    \/ postIncomeSource \/ putIncomeSource
    \/ postExpenseVertical \/ putExpenseVertical
    \/ postSavingsInstrument \/ putSavingsInstrument
    \/ postIncomeSourceBegin \/ putIncomeSourceBegin
    \/ postExpenseVerticalBegin \/ putExpenseVerticalBegin
    \/ postSavingsInstrumentBegin \/ putSavingsInstrumentBegin
    \/ commit

SpecCategories == InitLedger /\ [][NextCategories]_vars

\* Creates of categories and entries, handled whole or overlapping, and
\* account deletions
NextAccount ==
    \/ postIncomeSource \/ postExpenseVertical \/ postSavingsInstrument
    \/ postIncomeEntry \/ postExpenseEntry \/ postSavingsEntry
    \/ postIncomeSourceBegin \/ postExpenseVerticalBegin
    \/ postIncomeEntryBegin \/ postExpenseEntryBegin \/ postSavingsEntryBegin
    \/ commit
    \/ deleteAccount

SpecAccount == InitLedger /\ [][NextAccount]_vars

\* Logins, and deletions of the account that logged in
NextLoginLog == Authorize \/ TickAuth \/ deleteAccount

SpecLoginLog == InitAuth /\ [][NextLoginLog]_vars

\* The account a@x.io registered with the answer "Blue ", the seeded
\* account b@x.io without a security question
InitReset ==
    /\ now = 0
    /\ users = Insert(Insert(EmptyTable, 1, NewUser("a@x.io", "pw1", "Blue ")),
                      2, SeededUser("b@x.io", "pw2"))
    /\ nextUserId = 3
    /\ sessions = {}
    /\ loginAttempts = <<>>
    /\ emailVerifications = EmptyTable
    /\ nextVerificationId = 1
    /\ outbox = 0
    /\ incomeSources = EmptyTable
    /\ expenseVerticals = EmptyTable
    /\ savingsInstruments = EmptyTable
    /\ incomeEntries = EmptyTable
    /\ expenseEntries = EmptyTable
    /\ savingsEntries = EmptyTable
    /\ nextId = 1
    /\ inflight = {}
    /\ last = NoRequest

NextReset == ResetPassword \/ VerifyEmail

SpecReset == InitReset /\ [][NextReset]_vars

\* Logins while the log is short
LoginEmails ==
    /\ Len(loginAttempts) < MaxLoginsEmails
    /\ Authorize

\* The operations on accounts that take an email address, from the one
\* account a@x.io: the register handler that stores the address as given,
\* login, and the two forgot-password handlers
NextEmails == RegisterWithDefaults \/ LoginEmails \/ VerifyEmail \/ ResetPassword

SpecEmails == InitAuth /\ [][NextEmails]_vars

\* Logins handled whole and logins that overlap them
NextLoginRace == Authorize \/ AuthorizeBegin \/ authorizeEnd

SpecLoginRace == InitAuth /\ [][NextLoginRace]_vars

\* One code was sent to a@x.io and waits for its verification
InitOtpRace ==
    /\ now = 0
    /\ users = EmptyTable
    /\ nextUserId = 1
    /\ sessions = {}
    /\ loginAttempts = <<>>
    /\ emailVerifications =
           Insert(EmptyTable, 1, [email |-> "a@x.io", otp |-> "111111",
                                  expiresAt |-> OTP_EXPIRY_MINUTES,
                                  verified |-> FALSE, attempts |-> 0, createdAt |-> 0])
    /\ nextVerificationId = 2
    /\ outbox = 1
    /\ incomeSources = EmptyTable
    /\ expenseVerticals = EmptyTable
    /\ savingsInstruments = EmptyTable
    /\ incomeEntries = EmptyTable
    /\ expenseEntries = EmptyTable
    /\ savingsEntries = EmptyTable
    /\ nextId = 1
    /\ inflight = {}
    /\ last = NoRequest

\* Verifications of the code, handled whole and overlapping
NextOtpRace == VerifyOtp \/ VerifyOtpBegin \/ verifyOtpEnd

SpecOtpRace == InitOtpRace /\ [][NextOtpRace]_vars

-----------------------------------------------------------------------------
(* Claims about the ledger (SpecLedger, SpecInterleaved) *)

\* The step is a by-id request (one of ops) of a signed-in user for a row of
\* table t that another user owns
CrossUserRequest(ops, t) ==
    /\ last'.op \in ops
    /\ last'.user # NULL
    /\ last'.id \in Ids(t)
    /\ t[last'.id].userId # last'.user

\* Requests whose response carries rows of a user-owned table
OwnedOps ==
    {"income/list", "income/post", "income/get", "income/put",
     "expenses/list", "expenses/post", "expenses/get", "expenses/put",
     "savings/list", "savings/post", "savings/get", "savings/put",
     "income-sources/list", "income-sources/post", "income-sources/put",
     "expense-verticals/list", "expense-verticals/post", "expense-verticals/put"}

\* C8: a GET-by-id, PUT or DELETE of user A for an entry, income source or
\* expense vertical that user B owns answers 404 without a row and changes no
\* table; every row a response carries to A (lists included) is owned by A.
C8_NoCrossUserAccess ==
    [][ /\ ( \/ CrossUserRequest({"income/get", "income/put", "income/delete"}, incomeEntries)
             \/ CrossUserRequest({"expenses/get", "expenses/put", "expenses/delete"},
                                 expenseEntries)
             \/ CrossUserRequest({"savings/get", "savings/put", "savings/delete"},
                                 savingsEntries)
             \/ CrossUserRequest({"income-sources/put", "income-sources/delete"},
                                 incomeSources)
             \/ CrossUserRequest({"expense-verticals/put", "expense-verticals/delete"},
                                 expenseVerticals) )
           => /\ last'.status = 404
              /\ last'.body = EmptyTable
              /\ UNCHANGED tables
        /\ last'.op \in OwnedOps
           => \A i \in DOMAIN last'.body : last'.body[i].userId = last'.user
      ]_vars

\* User A's update of an income entry of user B was answered 404
C8_Witness ==
    /\ last.op = "income/put"
    /\ last.status = 404
    /\ last.id \in Ids(incomeEntries)
    /\ incomeEntries[last.id].userId # last.user

\* The step is a delete request of a signed-in user for the category row
\* last'.id of cats, which the user may delete
DeleteRequest(op, cats, owned) ==
    /\ last'.op = op
    /\ last'.user # NULL
    /\ last'.id \in Ids(cats)
    /\ owned => cats[last'.id].userId = last'.user

\* C10: the delete of a category that n > 0 entries reference answers 400
\* with n in the message and changes no table; the delete of a category no
\* entry references succeeds and removes that row and nothing else.
C10_DeleteGuardedByCount ==
    [][ /\ DeleteRequest("income-sources/delete", incomeSources, TRUE)
           => IF countEntries(incomeEntries, "sourceId", last'.id) > 0
              THEN /\ last'.status = 400
                   /\ last'.count = countEntries(incomeEntries, "sourceId", last'.id)
                   /\ UNCHANGED tables
              ELSE /\ last'.status = 200
                   /\ incomeSources' = Remove(incomeSources, {last'.id})
                   /\ UNCHANGED <<expenseVerticals, savingsInstruments, incomeEntries,
                                  expenseEntries, savingsEntries>>
        /\ DeleteRequest("expense-verticals/delete", expenseVerticals, TRUE)
           => IF countEntries(expenseEntries, "verticalId", last'.id) > 0
              THEN /\ last'.status = 400
                   /\ last'.count = countEntries(expenseEntries, "verticalId", last'.id)
                   /\ UNCHANGED tables
              ELSE /\ last'.status = 200
                   /\ expenseVerticals' = Remove(expenseVerticals, {last'.id})
                   /\ UNCHANGED <<incomeSources, savingsInstruments, incomeEntries,
                                  expenseEntries, savingsEntries>>
        /\ DeleteRequest("savings-instruments/delete", savingsInstruments, FALSE)
           => IF countEntries(savingsEntries, "instrumentId", last'.id) > 0
              THEN /\ last'.status = 400
                   /\ last'.count = countEntries(savingsEntries, "instrumentId", last'.id)
                   /\ UNCHANGED tables
              ELSE /\ last'.status = 200
                   /\ savingsInstruments' = Remove(savingsInstruments, {last'.id})
                   /\ UNCHANGED <<incomeSources, expenseVerticals, incomeEntries,
                                  expenseEntries, savingsEntries>>
      ]_vars

\* The delete of an income source that two entries reference was refused
C10_Witness ==
    /\ last.op = "income-sources/delete"
    /\ last.status = 400
    /\ last.count = 2
    /\ countEntries(incomeEntries, "sourceId", last.id) = 2

\* C9: every income entry references an existing income source of the entry's
\* user, every expense entry an existing expense vertical of the entry's user,
\* every savings entry an existing savings instrument.
C9_ReferencesResolve ==
    /\ \A e \in Ids(incomeEntries) :
          /\ incomeEntries[e].sourceId \in Ids(incomeSources)
          /\ incomeSources[incomeEntries[e].sourceId].userId = incomeEntries[e].userId
    /\ \A e \in Ids(expenseEntries) :
          /\ expenseEntries[e].verticalId \in Ids(expenseVerticals)
          /\ expenseVerticals[expenseEntries[e].verticalId].userId = expenseEntries[e].userId
    /\ \A e \in Ids(savingsEntries) :
          savingsEntries[e].instrumentId \in Ids(savingsInstruments)

\* The delete of an income source lost the race against the create of an
\* entry that references it: the entry is stored, the delete was refused
C9_Witness ==
    /\ last.op = "income-sources/delete"
    /\ last.status = 500
    /\ \E e \in Ids(incomeEntries) : incomeEntries[e].sourceId = last.id

-----------------------------------------------------------------------------
(* Entry values *)

\* Of the requests a handler may receive, those the response is to: the
\* response carries the caller's user and the id the request names
Answered(op, ids, bodies) ==
    {q \in Request(op, ids \cap {NULL, last'.id}, bodies) : q.caller = last'.user}

\* The strings that are a year of four digits, a dash and a month 01..12
CalendarMonths == {"2023-12", "2024-01", "2024-02", "0999-12"}

StoredEntriesValid(entries) ==
    \A e \in Ids(entries) :
        /\ entries[e].amount.d > 0
        /\ atMost999999999999(entries[e].amount)
        /\ entries[e].month \in CalendarMonths

\* The handling of create request q, its checks passed, returns and stores
\* the amount and the month of q
CreateKeepsInput(q, check, write, entries) ==
    (check = Proceed /\ Handle(check, write)) =>
        /\ last'.status = 201
        /\ last'.id \in Ids(entries') \ Ids(entries)
        /\ entries'[last'.id].amount = q.body.amount
        /\ entries'[last'.id].month = q.body.month
        /\ last'.body[last'.id].amount = q.body.amount
        /\ last'.body[last'.id].month = q.body.month

\* C11: a valid create stores and returns an entry whose amount and month are
\* exactly the input values, and after any sequence of create and update
\* requests every stored income, expense and savings entry has an amount that
\* is strictly positive and at most 999999999999 and a month of the form
\* YYYY-MM with a month part 01..12.
C11_EntryValuesKept ==
    /\ [](/\ StoredEntriesValid(incomeEntries)
          /\ StoredEntriesValid(expenseEntries)
          /\ StoredEntriesValid(savingsEntries))
    /\ [][/\ last'.op = "income/post" =>
              \A q \in Answered("income/post", {NULL}, IncomeEntryBodies) :
                CreateKeepsInput(q, postIncomeEntryCheck(q), postIncomeEntryWrite(q),
                                 incomeEntries)
          /\ last'.op = "expenses/post" =>
              \A q \in Answered("expenses/post", {NULL}, ExpenseEntryBodies) :
                CreateKeepsInput(q, postExpenseEntryCheck(q), postExpenseEntryWrite(q),
                                 expenseEntries)
          /\ last'.op = "savings/post" =>
              \A q \in Answered("savings/post", {NULL}, SavingsEntryBodies) :
                CreateKeepsInput(q, postSavingsEntryCheck(q), postSavingsEntryWrite(q),
                                 savingsEntries)]_vars

\* An entry created with one amount and updated to another
C11_Witness ==
    /\ last.op = "income/put"
    /\ last.status = 200
    /\ last.id \in Ids(incomeEntries)
    /\ incomeEntries[last.id].amount = Dec(250, 0)
    /\ incomeEntries[last.id].month = "2024-01"

-----------------------------------------------------------------------------
(* Rejected writes *)

WriteOps ==
    {"income/post", "income/put", "income/delete",
     "expenses/post", "expenses/put", "expenses/delete",
     "savings/post", "savings/put", "savings/delete",
     "income-sources/post", "income-sources/put", "income-sources/delete",
     "expense-verticals/post", "expense-verticals/put", "expense-verticals/delete",
     "savings-instruments/post", "savings-instruments/put", "savings-instruments/delete"}

ValidAmount(amount) == amount.d > 0 /\ atMost999999999999(amount)

FailsCreateSchema(body, ref) ==
    \/ body.month \notin CalendarMonths
    \/ body[ref] = NULL
    \/ body.amount = undefinedNumber
    \/ ~ValidAmount(body.amount)

FailsUpdateSchema(body) ==
    \/ body.month # undefined /\ body.month \notin CalendarMonths
    \/ body.amount # undefinedNumber /\ ~ValidAmount(body.amount)

\* Row id of table t is not the caller's; with owned FALSE, is not there
NotUsable(t, id, caller, owned) ==
    id \notin Ids(t) \/ (owned /\ t[id].userId # caller)

\* The status a request is rejected with, 0 for a request that is not rejected
\* for a missing session, an entry or category id, its payload or its reference
CreateEntryStatus(q, ref, cats, owned) ==
    IF q.caller \notin sessions THEN 401
    ELSE IF FailsCreateSchema(q.body, ref) THEN 400
    ELSE IF NotUsable(cats, q.body[ref], q.caller, owned) THEN 400
    ELSE 0

UpdateEntryStatus(q, ref, entries, cats, owned) ==
    IF q.caller \notin sessions THEN 401
    ELSE IF NotUsable(entries, q.id, q.caller, TRUE) THEN 404
    ELSE IF FailsUpdateSchema(q.body) THEN 400
    ELSE IF q.body[ref] # NULL /\ NotUsable(cats, q.body[ref], q.caller, owned) THEN 400
    ELSE 0

FailsCategorySchema(body, instrument) ==
    body.name = "" \/ (instrument /\ body.category \notin savingsCategoryEnum)

CreateCategoryStatus(q, instrument) ==
    IF q.caller \notin sessions THEN 401
    ELSE IF FailsCategorySchema(q.body, instrument) THEN 400
    ELSE 0

UpdateCategoryStatus(q, cats, instrument) ==
    IF q.caller \notin sessions THEN 401
    ELSE IF NotUsable(cats, q.id, q.caller, ~instrument) THEN 404
    ELSE IF FailsCategorySchema(q.body, instrument) THEN 400
    ELSE 0

\* The handling of a request that is to be rejected with a status answers
\* that status and writes nothing
RejectedWith(status, handling) ==
    (status # 0 /\ handling) => (last'.status = status /\ UNCHANGED tables)

\* C12: every ledger-entry or category write request that is rejected leaves
\* all stored state unchanged: without a session the answer is 401, for an
\* entry id (or category id) that is not the caller's 404, for a payload that
\* fails the schema 400, for a category reference that is not the caller's
\* (income, expenses) or does not exist (savings) 400, the checks being made
\* in this order, and no row is created, modified or deleted.
C12_RejectedWritesChangeNothing ==
    [][/\ last'.op \in WriteOps =>
            /\ last'.status \notin {200, 201} => UNCHANGED tables
            /\ last'.user = NULL => last'.status = 401
       /\ last'.op \in {"income/delete", "expenses/delete", "savings/delete"} =>
            LET entries == CASE last'.op = "income/delete" -> incomeEntries
                             [] last'.op = "expenses/delete" -> expenseEntries
                             [] last'.op = "savings/delete" -> savingsEntries
            IN  (last'.user # NULL /\ NotUsable(entries, last'.id, last'.user, TRUE))
                    => last'.status = 404
       /\ last'.op = "income/post" =>
            \A q \in Answered("income/post", {NULL}, IncomeEntryBodies) :
                RejectedWith(CreateEntryStatus(q, "sourceId", incomeSources, TRUE),
                             Handle(postIncomeEntryCheck(q), postIncomeEntryWrite(q)))
       /\ last'.op = "expenses/post" =>
            \A q \in Answered("expenses/post", {NULL}, ExpenseEntryBodies) :
                RejectedWith(CreateEntryStatus(q, "verticalId", expenseVerticals, TRUE),
                             Handle(postExpenseEntryCheck(q), postExpenseEntryWrite(q)))
       /\ last'.op = "savings/post" =>
            \A q \in Answered("savings/post", {NULL}, SavingsEntryBodies) :
                RejectedWith(CreateEntryStatus(q, "instrumentId", savingsInstruments, FALSE),
                             Handle(postSavingsEntryCheck(q), postSavingsEntryWrite(q)))
       /\ last'.op = "income/put" =>
            \A q \in Answered("income/put", RequestIds(incomeEntries), IncomeEntryBodies) :
                RejectedWith(UpdateEntryStatus(q, "sourceId", incomeEntries, incomeSources, TRUE),
                             Handle(putIncomeEntryCheck(q), putIncomeEntryWrite(q)))
       /\ last'.op = "expenses/put" =>
            \A q \in Answered("expenses/put", RequestIds(expenseEntries), ExpenseEntryBodies) :
                RejectedWith(UpdateEntryStatus(q, "verticalId", expenseEntries,
                                               expenseVerticals, TRUE),
                             Handle(putExpenseEntryCheck(q), putExpenseEntryWrite(q)))
       /\ last'.op = "savings/put" =>
            \A q \in Answered("savings/put", RequestIds(savingsEntries), SavingsEntryBodies) :
                RejectedWith(UpdateEntryStatus(q, "instrumentId", savingsEntries,
                                               savingsInstruments, FALSE),
                             Handle(putSavingsEntryCheck(q), putSavingsEntryWrite(q)))
       /\ last'.op = "income-sources/post" =>
            \A q \in Answered("income-sources/post", {NULL}, NameBodies) :
                RejectedWith(CreateCategoryStatus(q, FALSE), postIncomeSourceRequest(q))
       /\ last'.op = "expense-verticals/post" =>
            \A q \in Answered("expense-verticals/post", {NULL}, NameBodies) :
                RejectedWith(CreateCategoryStatus(q, FALSE), postExpenseVerticalRequest(q))
       /\ last'.op = "savings-instruments/post" =>
            \A q \in Answered("savings-instruments/post", {NULL}, InstrumentBodies) :
                RejectedWith(CreateCategoryStatus(q, TRUE), postSavingsInstrumentRequest(q))
       /\ last'.op = "income-sources/put" =>
            \A q \in Answered("income-sources/put", RequestIds(incomeSources), NameBodies) :
                RejectedWith(UpdateCategoryStatus(q, incomeSources, FALSE),
                             putIncomeSourceRequest(q))
       /\ last'.op = "expense-verticals/put" =>
            \A q \in Answered("expense-verticals/put", RequestIds(expenseVerticals), NameBodies) :
                RejectedWith(UpdateCategoryStatus(q, expenseVerticals, FALSE),
                             putExpenseVerticalRequest(q))
       /\ last'.op = "savings-instruments/put" =>
            \A q \in Answered("savings-instruments/put", RequestIds(savingsInstruments),
                              InstrumentBodies) :
                RejectedWith(UpdateCategoryStatus(q, savingsInstruments, TRUE),
                             putSavingsInstrumentRequest(q))]_vars

\* An update of the caller's savings entry that names an instrument that
\* does not exist was answered 400
C12_Witness ==
    /\ last.op = "savings/put"
    /\ last.status = 400
    /\ last.msg = "Invalid savings instrument"
    /\ last.id \in Ids(savingsEntries)
    /\ savingsEntries[last.id].userId = last.user

-----------------------------------------------------------------------------
(* The audit log and the login messages *)

Reasons == {"invalid_email", "invalid_password", "account_locked", "success"}

\* The step appends exactly one LoginAttempt row, with a reason of Reasons
\* and the success flag set exactly for the reason success
AppendsOneRow ==
    /\ Len(loginAttempts') = Len(loginAttempts) + 1
    /\ SubSeq(loginAttempts', 1, Len(loginAttempts)) = loginAttempts
    /\ LET row == loginAttempts'[Len(loginAttempts')]
       IN  /\ row.reason \in Reasons
           /\ row.success = (row.reason = "success")
           /\ row.success = (last'.user # NULL)

C14_SameMessage ==
    (/\ last.op = "authorize"
     /\ last.user = NULL
     /\ last.email # ""
     /\ last.secret # "")
        => last.msg = "Invalid email or password"

-----------------------------------------------------------------------------
(* Dashboard and export *)

DashboardAnswered == last.op = "dashboard" /\ last.status = 200

\* x + y without rounding, for x and y not below 0
ExactAdd[x \in Doubles, y \in Doubles] ==
    IF x.m = <<>> THEN y
    ELSE IF y.m = <<>> THEN x
    ELSE IF x.e < y.e THEN RoundKept[FALSE, x.e, BigAdd[x.m, BigShl[y.m, y.e - x.e]]]
    ELSE RoundKept[FALSE, y.e, BigAdd[BigShl[x.m, x.e - y.e], y.m]]

ExactSum[xs \in Seq(Doubles)] ==
    IF xs = <<>> THEN Zero ELSE ExactAdd[ExactSum[SubSeq(xs, 1, Len(xs) - 1)], xs[Len(xs)]]

\* The numbers xs add up to total: added one after the other as doubles, or
\* added as the real numbers they are
SumsTo(xs, total) == reduceSum[xs] = total \/ ExactSum[xs] = total

Column(rows, field) == [i \in 1..Len(rows) |-> rows[i][field]]

\* C15: in every dashboard response the monthlyData incomes add up to
\* summary.totalIncome, the expenses to totalExpenses, the savings to
\* totalSavings, and netCashFlow is totalIncome - totalExpenses - totalSavings
C15_MonthlySumsAreTotals ==
    DashboardAnswered =>
        LET summary == last.body.json.summary
            monthlyData == last.body.json.monthlyData
        IN  /\ SumsTo(Column(monthlyData, "income"), summary.totalIncome)
            /\ SumsTo(Column(monthlyData, "expenses"), summary.totalExpenses)
            /\ SumsTo(Column(monthlyData, "savings"), summary.totalSavings)
            /\ summary.netCashFlow
                   = Sub[Sub[summary.totalIncome, summary.totalExpenses], summary.totalSavings]

\* The doubles k / 100 for the integers k nearest to 10000 * value / total
TwoDecimals(value, total) ==
    LET e == IF value.e < total.e THEN value.e ELSE total.e
        v == BigMul[BigShl[value.m, value.e - e], 10000]
        t == BigShl[total.m, total.e - e]
        qr == BigDivMod[v, t]
        half == BigCmp[BigMul[qr.r, 2], t]
        down == RoundToDouble[FALSE, qr.q, 0, FALSE]
        up == RoundToDouble[FALSE, BigAdd[qr.q, <<1>>], 0, FALSE]
    IN  {Div[k, fromInt(100)] : k \in (IF half < 0 THEN {down}
                                         ELSE IF half > 0 THEN {up} ELSE {down, up})}

IsRate(rate, value, totalIncome) ==
    IF totalIncome = Zero THEN rate = Zero ELSE rate \in TwoDecimals(value, totalIncome)

\* C16: in every dashboard summary savingsRate and expenseRatio are 0 when
\* totalIncome is 0, and otherwise totalSavings / totalIncome * 100 and
\* totalExpenses / totalIncome * 100 rounded to two decimals (to a nearest
\* multiple of 0.01)
C16_RatesRoundedToTwoDecimals ==
    DashboardAnswered =>
        LET summary == last.body.json.summary
        IN  /\ IsRate(summary.savingsRate, summary.totalSavings, summary.totalIncome)
            /\ IsRate(summary.expenseRatio, summary.totalExpenses, summary.totalIncome)

\* 23 saved of 160 earned: 14.375 percent, answered as 14.37
C16_Witness ==
    /\ DashboardAnswered
    /\ last.body.json.summary.totalIncome = fromInt(160)
    /\ last.body.json.summary.totalSavings = fromInt(23)
    /\ last.body.json.summary.savingsRate = toDouble(Dec(1437, -2))
    /\ last.body.json.summary.expenseRatio = toDouble(Dec(625, -1))

\* The place of a month token among the months: 12 * year + month - 1
MonthIndex(month) ==
    LET parts == split(chars(month), "-")
    IN  12 * Number(parts[1]) + Number(parts[2]) - 1

\* The month token YYYY-MM of a place
MonthAt(index) ==
    string(padStart(String(index \div 12), 4, "0") \o <<"-">>
           \o padStart(String((index % 12) + 1), 2, "0"))

\* The calendar months from from to to, ascending; none when from is after to
CalendarRange(from, to) ==
    [i \in 1..(MonthIndex(to) - MonthIndex(from) + 1) |-> MonthAt(MonthIndex(from) + i - 1)]

\* The amounts user has entered for the months, in a table of entries
AmountsIn(entries, user, months) ==
    LET found == ascending({e \in Ids(entries) :
                               entries[e].userId = user /\ Contains(months, entries[e].month)})
    IN  [i \in 1..Len(found) |-> toDouble(entries[found[i]].amount)]

AllZero(summary) ==
    \A field \in {"totalIncome", "totalExpenses", "totalSavings", "netCashFlow",
                  "savingsRate", "expenseRatio"} : summary[field] = Zero

\* C17: a dashboard query for valid months has one monthlyData row for each
\* calendar month from from to to, ascending, with the sums of the caller's
\* entries of that month (0 without entries); when from is after to, or
\* the caller has no entries, every field of the summary is 0
C17_OneRowPerMonth ==
    DashboardAnswered =>
        LET query == last.body.query
            json == last.body.json
            months == CalendarRange(query.from, query.to)
            Of(entries) == {e \in Ids(entries) : entries[e].userId = last.user}
        IN  /\ Column(json.monthlyData, "month") = months
            /\ \A i \in 1..Len(months) :
                /\ SumsTo(AmountsIn(incomeEntries, last.user, <<months[i]>>),
                          json.monthlyData[i].income)
                /\ SumsTo(AmountsIn(expenseEntries, last.user, <<months[i]>>),
                          json.monthlyData[i].expenses)
                /\ SumsTo(AmountsIn(savingsEntries, last.user, <<months[i]>>),
                          json.monthlyData[i].savings)
            /\ (months = <<>> \/ Of(incomeEntries) \cup Of(expenseEntries) \cup Of(savingsEntries) = {})
                   => AllZero(json.summary)

\* A breakdown table has one row for each key of the rows, with the sum of
\* the amounts of the rows of that key, and its amounts add up to total
IsBreakdown(table, keyField, rows, key, total) ==
    /\ {table[i][keyField] : i \in 1..Len(table)} = {rows[j][key] : j \in 1..Len(rows)}
    /\ Len(table) = Cardinality({rows[j][key] : j \in 1..Len(rows)})
    /\ \A i \in 1..Len(table) :
        SumsTo(amounts(SelectSeq(rows, LAMBDA e : e[key] = table[i][keyField])), table[i].amount)
    /\ SumsTo(Column(table, "amount"), total)

\* C18: a dashboard answer counts every income entry the caller has created
\* for a month of the range in summary.totalIncome and in the incomeBySource
\* row of its source; each breakdown table has one row for each category
\* name with an entry in the range, and its amounts add up to the total
C18_EntriesAreCounted ==
    DashboardAnswered =>
        LET query == last.body.query
            json == last.body.json
            months == CalendarRange(query.from, query.to)
            incomeRows == findMany(incomeEntries, "sourceId", incomeSources, last.user, months)
            expenseRows == findMany(expenseEntries, "verticalId", expenseVerticals, last.user, months)
            savingsRows == findMany(savingsEntries, "instrumentId", savingsInstruments, last.user, months)
        IN  /\ SumsTo(amounts(incomeRows), json.summary.totalIncome)
            /\ IsBreakdown(json.breakdowns.incomeBySource, "name", incomeRows, "name",
                           json.summary.totalIncome)
            /\ IsBreakdown(json.breakdowns.expensesByVertical, "name", expenseRows, "name",
                           json.summary.totalExpenses)
            /\ IsBreakdown(json.breakdowns.savingsByCategory, "category", savingsRows, "category",
                           json.summary.totalSavings)
            /\ IsBreakdown(json.breakdowns.savingsByInstrument, "name", savingsRows, "name",
                           json.summary.totalSavings)


\* A reader of RFC 4180 text.  A field that starts with a double quote runs
\* to its closing quote, a doubled quote inside it standing for one; fields
\* are separated by commas and records by a line break, "\n" or "\r\n".

\* The position after the field of cs that is read at i, inside its quotes
\* when quoted holds
FieldEnd[cs \in Seq(STRING), i \in Nat, quoted \in BOOLEAN] ==
    IF i > Len(cs) THEN i
    ELSE IF quoted
    THEN IF cs[i] # "\"" THEN FieldEnd[cs, i + 1, TRUE]
         ELSE IF i < Len(cs) /\ cs[i + 1] = "\"" THEN FieldEnd[cs, i + 2, TRUE]
         ELSE FieldEnd[cs, i + 1, FALSE]
    ELSE IF cs[i] = "," \/ cs[i] = "\n" \/ (cs[i] = "\r" /\ i < Len(cs) /\ cs[i + 1] = "\n")
    THEN i
    ELSE FieldEnd[cs, i + 1, FALSE]

\* The text of a quoted field from the text after its opening quote
Unquote[cs \in Seq(STRING), i \in Nat, quoted \in BOOLEAN] ==
    IF i > Len(cs) THEN <<>>
    ELSE IF ~quoted \/ cs[i] # "\"" THEN <<cs[i]>> \o Unquote[cs, i + 1, quoted]
    ELSE IF i < Len(cs) /\ cs[i + 1] = "\"" THEN <<"\"">> \o Unquote[cs, i + 2, TRUE]
    ELSE Unquote[cs, i + 1, FALSE]

\* The text of the field cs[i..end - 1]
FieldText(cs, i, end) ==
    IF i < end /\ cs[i] = "\"" THEN Unquote[SubSeq(cs, i + 1, end - 1), 1, TRUE]
    ELSE SubSeq(cs, i, end - 1)

\* The records of cs from the field at i on, after the records rows and the
\* fields row of the record of that field
Read[cs \in Seq(STRING), i \in Nat, row \in Seq(Seq(STRING)), rows \in Seq(Seq(Seq(STRING)))] ==
    LET end == IF i <= Len(cs) /\ cs[i] = "\"" THEN FieldEnd[cs, i + 1, TRUE]
               ELSE FieldEnd[cs, i, FALSE]
    IN  IF end > Len(cs) THEN rows \o <<row \o <<FieldText(cs, i, end)>>>>
        ELSE IF cs[end] = ","
        THEN Read[cs, end + 1, row \o <<FieldText(cs, i, end)>>, rows]
        ELSE Read[cs, IF cs[end] = "\n" THEN end + 1 ELSE end + 2, <<>>,
                  rows \o <<row \o <<FieldText(cs, i, end)>>>>]

\* The records of cs, each the sequence of its fields
readCsv(cs) == Read[cs, 1, <<>>, <<>>]

\* The position in records of the record that starts with the field label
RecordOf(records, label) ==
    CHOOSE i \in 1..Len(records) : records[i][1] = chars(label)

\* The value the summary export gives for a metric
ValueOf(records, label) == records[RecordOf(records, label)][2]

\* The name-to-amount mapping of the records first..last of a summary export,
\* the names without the two spaces put before them
ExportedBreakdown(records, first, last_) ==
    {<<SubSeq(records[i][1], 3, Len(records[i][1])), records[i][2]>> : i \in first..last_}

\* The name-to-amount mapping of a dashboard breakdown, the amounts as texts
DashboardBreakdown(table) ==
    {<<chars(table[i].name), numberToString(table[i].amount)>> : i \in 1..Len(table)}

SummaryExported ==
    /\ last.op = "export"
    /\ last.status = 200
    /\ last.body.query.type = "summary"

\* C19: the totals, the net cash flow, the savings rate and the expense ratio
\* of a summary export for the month m are those of the dashboard for the
\* range m..m, and its income and expense breakdown rows give the same
\* amount for each name as the breakdowns of that dashboard
C19_SummaryExportIsDashboard ==
    SummaryExported =>
        LET m == last.body.query.month
            months == getMonthsList(m, m)
            json == dashboardJson(
                months,
                findMany(incomeEntries, "sourceId", incomeSources, last.user, months),
                findMany(expenseEntries, "verticalId", expenseVerticals, last.user, months),
                findMany(savingsEntries, "instrumentId", savingsInstruments, last.user, months))
            records == readCsv(last.body.csv)
        IN  /\ ValueOf(records, "Total Income") = numberToString(json.summary.totalIncome)
            /\ ValueOf(records, "Total Expenses") = numberToString(json.summary.totalExpenses)
            /\ ValueOf(records, "Total Savings") = numberToString(json.summary.totalSavings)
            /\ ValueOf(records, "Net Cash Flow") = numberToString(json.summary.netCashFlow)
            /\ ValueOf(records, "Savings Rate (%)") = numberToString(json.summary.savingsRate)
            /\ ValueOf(records, "Expense Ratio (%)") = numberToString(json.summary.expenseRatio)
            /\ ExportedBreakdown(records, RecordOf(records, "Income Breakdown") + 1,
                                 RecordOf(records, "Expense Breakdown") - 2)
               = DashboardBreakdown(json.breakdowns.incomeBySource)
            /\ ExportedBreakdown(records, RecordOf(records, "Expense Breakdown") + 1,
                                 RecordOf(records, "Savings Breakdown") - 2)
               = DashboardBreakdown(json.breakdowns.expensesByVertical)

\* The same for the months whose year the dashboard writes as it was given
C19_SummaryExportIsDashboardOfMonth ==
    (SummaryExported /\ getMonthsList(last.body.query.month, last.body.query.month)
                        = <<last.body.query.month>>)
        => C19_SummaryExportIsDashboard

\* The text of a cell: String(field), and the empty text for null
TextOf(field) ==
    IF field.type = "null" THEN <<>>
    ELSE IF field.type = "number" THEN numberToString(field.value)
    ELSE field.value

Count(cs, c) == Cardinality({i \in 1..Len(cs) : cs[i] = c})

\* out is text between double quotes, each double quote of text doubled
IsQuoted(out, text) ==
    /\ Len(out) = Len(text) + Count(text, "\"") + 2
    /\ out[1] = "\""
    /\ out[Len(out)] = "\""
    /\ Count(out, "\"") = 2 * Count(text, "\"") + 2
    /\ Unquote[out, 2, TRUE] = text

\* The quoting rule for one field
QuotingRule(field) ==
    IF \E c \in {",", "\"", "\n"} : includes(TextOf(field), c)
    THEN IsQuoted(escapeCsvField(field), TextOf(field))
    ELSE escapeCsvField(field) = TextOf(field)

CsvWritten == last.op = "csv/arrayToCsv"

TextsOf(row) == [i \in 1..Len(row) |-> TextOf(row[i])]

\* The text arrayToCsv has written, read back, is the texts of the fields
ReadBack ==
    readCsv(last.body.csv)
    = <<TextsOf(last.body.headers)>>
      \o [i \in 1..Len(last.body.rows) |-> TextsOf(last.body.rows[i])]

\* C20: escapeCsvField puts a field between double quotes, its double quotes
\* doubled, exactly when it has a comma, a double quote or a newline, and
\* gives the text of any other field (the empty text for null); an RFC 4180
\* reader of the text of arrayToCsv finds the texts of the fields
C20_CsvFieldsAreRecovered ==
    CsvWritten =>
        /\ \A i \in 1..Len(last.body.headers) : QuotingRule(last.body.headers[i])
        /\ \A i \in 1..Len(last.body.rows) :
            \A j \in 1..Len(last.body.rows[i]) : QuotingRule(last.body.rows[i][j])
        /\ ReadBack

\* The quoting rule alone
C20_QuotingRule ==
    CsvWritten =>
        /\ \A i \in 1..Len(last.body.headers) : QuotingRule(last.body.headers[i])
        /\ \A i \in 1..Len(last.body.rows) :
            \A j \in 1..Len(last.body.rows[i]) : QuotingRule(last.body.rows[i][j])

\* The last field of row ends with a carriage return
EndsWithCR(row) ==
    /\ row # <<>>
    /\ TextOf(row[Len(row)]) # <<>>
    /\ TextOf(row[Len(row)])[Len(TextOf(row[Len(row)]))] = "\r"

\* The fields are recovered when no row that another follows ends with a
\* carriage return
C20_RecoveredUnlessRowEndsWithCR ==
    (/\ CsvWritten
     /\ last.body.rows # <<>> => ~EndsWithCR(last.body.headers)
     /\ \A i \in 1..(Len(last.body.rows) - 1) : ~EndsWithCR(last.body.rows[i]))
        => ReadBack

-----------------------------------------------------------------------------
(* Category names *)

\* No two rows of a user's categories have the same name, no two savings
\* instruments the same name and category
NoDuplicates ==
    /\ \A c, d \in Ids(incomeSources) :
        (incomeSources[c].name = incomeSources[d].name
         /\ incomeSources[c].userId = incomeSources[d].userId) => c = d
    /\ \A c, d \in Ids(expenseVerticals) :
        (expenseVerticals[c].name = expenseVerticals[d].name
         /\ expenseVerticals[c].userId = expenseVerticals[d].userId) => c = d
    /\ \A c, d \in Ids(savingsInstruments) :
        (savingsInstruments[c].name = savingsInstruments[d].name
         /\ savingsInstruments[c].category = savingsInstruments[d].category) => c = d

CategoryTable(op) ==
    CASE op \in {"income-sources/post", "income-sources/put"} -> incomeSources
      [] op \in {"expense-verticals/post", "expense-verticals/put"} -> expenseVerticals
      [] op \in {"savings-instruments/post", "savings-instruments/put"} -> savingsInstruments

CategoryWrites ==
    {"income-sources/post", "income-sources/put", "expense-verticals/post",
     "expense-verticals/put", "savings-instruments/post", "savings-instruments/put"}

\* The create or rename q of a signed-in caller, well-formed and, for a
\* rename, of a category the caller may rename, would give a second row the
\* name (and the user or the category) of another row
WouldDuplicate(q) ==
    LET t == CategoryTable(q.op)
        shared == q.op \in {"savings-instruments/post", "savings-instruments/put"}
    IN  /\ getCurrentUser(q.caller) # NULL
        /\ IF shared THEN createSavingsInstrumentSchema(q.body.name, q.body.category) = ""
           ELSE nameSchema(q.body.name) = ""
        /\ q.id # NULL =>
            IF shared THEN findUnique(t, q.id) # NULL
            ELSE findCategory(t, q.id, q.caller) # NULL
        /\ \E c \in Ids(t) \ {q.id} :
            /\ t[c].name = q.body.name
            /\ IF shared THEN t[c].category = q.body.category ELSE t[c].userId = q.caller

\* The requests the step answers: handled without interruption, or written
\* after their checks
AnsweredCategoryWrites ==
    (inflight \ inflight')
    \cup {q \in Answered("income-sources/post", {NULL}, NameBodies) : postIncomeSourceRequest(q)}
    \cup {q \in Answered("income-sources/put", RequestIds(incomeSources), NameBodies) :
            putIncomeSourceRequest(q)}
    \cup {q \in Answered("expense-verticals/post", {NULL}, NameBodies) :
            postExpenseVerticalRequest(q)}
    \cup {q \in Answered("expense-verticals/put", RequestIds(expenseVerticals), NameBodies) :
            putExpenseVerticalRequest(q)}
    \cup {q \in Answered("savings-instruments/post", {NULL}, InstrumentBodies) :
            postSavingsInstrumentRequest(q)}
    \cup {q \in Answered("savings-instruments/put", RequestIds(savingsInstruments),
                         InstrumentBodies) : putSavingsInstrumentRequest(q)}

\* C21: under any interleaving of category creates and renames no user has
\* two income sources or two expense verticals of the same name and no two
\* savings instruments have the same name and category; a create or rename
\* that would make a duplicate is answered 400 and changes nothing
C21_NamesUnique ==
    /\ []NoDuplicates
    /\ [][\A q \in AnsweredCategoryWrites :
            (q.op \in CategoryWrites /\ WouldDuplicate(q))
                => (last'.status = 400 /\ UNCHANGED tables)]_vars

\* The part of C21 that is about the stored rows
C21_NoDuplicates == NoDuplicates

\* A create that would make a duplicate when it is written is refused and
\* changes nothing, whatever the status of the answer
C21_DuplicatesRefused ==
    [][\A q \in AnsweredCategoryWrites :
            (q.op \in CategoryWrites /\ WouldDuplicate(q))
                => (last'.status \in {400, 500} /\ UNCHANGED tables)]_vars

-----------------------------------------------------------------------------
(* Account deletion *)

UserTables == <<incomeEntries, expenseEntries, savingsEntries, incomeSources, expenseVerticals>>

UserTablesAfter ==
    <<incomeEntries', expenseEntries', savingsEntries', incomeSources', expenseVerticals'>>

\* The rows of t that are not of the user are the rows of after that are not
\* of the user, field by field
OthersUnchanged(t, after, userId) ==
    LET others == {e \in Ids(t) : t[e].userId # userId}
    IN  /\ others \subseteq Ids(after)
        /\ \A e \in others : after[e] = t[e]

\* C22: when delete-account answers success to user U, the user row of U and
\* every entry, income source and expense vertical of U are gone, the rows of
\* the other users are as they were and so is every savings instrument
C22_AccountDeleted ==
    [][(deleteAccount /\ last'.op = "delete-account" /\ last'.status = 200) =>
        LET U == last'.user
        IN  /\ U \notin Ids(users')
            /\ \A k \in 1..5 :
                /\ \A e \in Ids(UserTablesAfter[k]) : UserTablesAfter[k][e].userId # U
                /\ OthersUnchanged(UserTables[k], UserTablesAfter[k], U)
            /\ Remove(users, {U}) = users'
            /\ savingsInstruments' = savingsInstruments]_vars

\* An account that had rows was deleted while the other user has an income
\* source and there is a shared instrument
C22_Witness ==
    /\ last.op = "delete-account" /\ last.status = 200
    /\ nextId - 1 > Cardinality(Ids(incomeSources)) + Cardinality(Ids(expenseVerticals))
                    + Cardinality(Ids(savingsInstruments)) + Cardinality(Ids(incomeEntries))
                    + Cardinality(Ids(expenseEntries)) + Cardinality(Ids(savingsEntries))
    /\ \E c \in Ids(incomeSources) : incomeSources[c].userId # last.user
    /\ Ids(savingsInstruments) # {}

\* C24: a row of LoginAttempt, once appended, stays at its place with its
\* fields, whatever the application does next, account deletion included
C24_LoginAttemptsAppendOnly ==
    [][/\ Len(loginAttempts') >= Len(loginAttempts)
       /\ \A i \in 1..Len(loginAttempts) : loginAttempts'[i] = loginAttempts[i]]_vars

\* The same of the steps that are not a successful account deletion
C24_AppendOnlyButDeletion ==
    [][~(last'.op = "delete-account" /\ last'.status = 200 /\ deleteAccount) =>
        /\ Len(loginAttempts') >= Len(loginAttempts)
        /\ \A i \in 1..Len(loginAttempts) : loginAttempts'[i] = loginAttempts[i]]_vars

\* C29: in every state the owner of every entry, income source and expense
\* vertical is an existing user, also after requests made with a session of
\* a deleted account
C29_OwnersExist ==
    \A k \in 1..5 :
        \A e \in Ids(UserTables[k]) : UserTables[k][e].userId \in Ids(users)

\* A create was requested with the session of a deleted account, passed the
\* checks of the handler and reached the database
C29_Witness ==
    /\ last.op \in {"savings/post", "income-sources/post", "expense-verticals/post"}
    /\ last.user # NULL
    /\ last.user \in sessions
    /\ last.user \notin Ids(users)
    /\ last.status = 500

-----------------------------------------------------------------------------
(* Lockout *)

\* C28: when logins are handled one after the other, lockedUntil of a user
\* is set only if failedLoginAttempts is at least MAX_LOGIN_ATTEMPTS
C28_LockedOnlyAfterMaxAttempts ==
    \A u \in Ids(users) :
        users[u].lockedUntil # NULL => users[u].failedLoginAttempts >= MAX_LOGIN_ATTEMPTS

\* An account was locked, the lock ran out and a wrong password was checked
\* again: the counter is above the maximum and the lock is set anew
C28_Witness ==
    \E u \in Ids(users) :
        /\ users[u].lockedUntil # NULL
        /\ users[u].failedLoginAttempts > MAX_LOGIN_ATTEMPTS
        /\ last.op = "authorize"

-----------------------------------------------------------------------------
(* Updates of entries *)

\* The update q of an entry of table t changed, in after, the fields its
\* body gives and nothing else: the other fields of the entry, its id, its
\* user, and every other row are as they were
OnlyGivenFieldsChange(q, t, after, ref) ==
    /\ q.id \in Ids(t)
    /\ Ids(after) = Ids(t)
    /\ \A e \in Ids(t) \ {q.id} : after[e] = t[e]
    /\ after[q.id].userId = t[q.id].userId
    /\ after[q.id].month = (IF q.body.month = undefined THEN t[q.id].month ELSE q.body.month)
    /\ after[q.id][ref] = (IF q.body[ref] = NULL THEN t[q.id][ref] ELSE q.body[ref])
    /\ after[q.id].amount =
          (IF q.body.amount = undefinedNumber THEN t[q.id].amount ELSE q.body.amount)
    /\ after[q.id].notes = (IF q.body.notes = undefined THEN t[q.id].notes ELSE q.body.notes)

\* C30: a PUT on an entry that is answered 200 changes the fields its body
\* gives and no other: omitted fields keep their values, the id and the
\* user of the entry stay, every other row stays
C30_PutChangesGivenFieldsOnly ==
    [][/\ (last'.op = "income/put" /\ last'.status = 200) =>
            \A q \in Answered("income/put", RequestIds(incomeEntries), IncomeEntryBodies) :
                Handle(putIncomeEntryCheck(q), putIncomeEntryWrite(q)) =>
                    /\ OnlyGivenFieldsChange(q, incomeEntries, incomeEntries', "sourceId")
                    /\ UNCHANGED <<expenseEntries, savingsEntries>>
       /\ (last'.op = "expenses/put" /\ last'.status = 200) =>
            \A q \in Answered("expenses/put", RequestIds(expenseEntries), ExpenseEntryBodies) :
                Handle(putExpenseEntryCheck(q), putExpenseEntryWrite(q)) =>
                    /\ OnlyGivenFieldsChange(q, expenseEntries, expenseEntries', "verticalId")
                    /\ UNCHANGED <<incomeEntries, savingsEntries>>
       /\ (last'.op = "savings/put" /\ last'.status = 200) =>
            \A q \in Answered("savings/put", RequestIds(savingsEntries), SavingsEntryBodies) :
                Handle(putSavingsEntryCheck(q), putSavingsEntryWrite(q)) =>
                    /\ OnlyGivenFieldsChange(q, savingsEntries, savingsEntries', "instrumentId")
                    /\ UNCHANGED <<incomeEntries, expenseEntries>>]_vars

\* An update that gave the amount and the notes was answered 200: the entry
\* has the notes, and the month it was created with
C30_Witness ==
    /\ last.op \in {"income/put", "expenses/put", "savings/put"}
    /\ last.status = 200
    /\ \E e \in Ids(last.body) :
        /\ last.body[e].notes = "rent"
        /\ last.body[e].month = "2024-01"

-----------------------------------------------------------------------------
(* Password reset *)

\* The answer, lower-cased and trimmed, is the one whose hash is stored
AnswerMatches(securityAnswer, stored) == stored = hash(trim(toLowerCase(securityAnswer)))

\* after is us but for the password of user
OnlyPasswordChanged(us, after, user) ==
    /\ Ids(after) = Ids(us)
    /\ \A u \in Ids(us) :
        \A field \in DOMAIN us[u] :
            (u # user \/ field # "password") => after[u][field] = us[u][field]

\* C25: a password-reset request changes a password hash only when the
\* answer, lower-cased and trimmed, matches the stored answer hash of the
\* account with the given email, and then no other field and no other user;
\* with a wrong answer, an unknown email or an account without an answer it
\* is answered with an error and changes nothing
C25_ResetOnlyOnMatchingAnswer ==
    [][\A e \in ResetEmails, a \in ResetAnswers, p \in ResetPasswords :
        resetPassword(e, a, p) =>
            LET account == findUserByEmail(users, e)
                matches == /\ account # NULL
                           /\ users[account].securityAnswer # NoHash
                           /\ AnswerMatches(a, users[account].securityAnswer)
            IN  /\ users' # users => (matches /\ OnlyPasswordChanged(users, users', account))
                /\ ~matches => (last'.status \in {400, 401, 404} /\ UNCHANGED users)]_vars

\* The answer "Blue " was accepted for the account registered with it and
\* the password is the new one
C25_Witness ==
    /\ last.op = "forgot-password/reset"
    /\ last.status = 200
    /\ last.secret = "Blue "
    /\ users[last.user].password \in {hash("newpass"), hash("passw0rd")}
    /\ users[last.user].password # hash("pw1")

-----------------------------------------------------------------------------
(* Email addresses *)

\* Every stored user email and every stored verification email is lower-case
StoredEmailsLowerCase ==
    /\ \A u \in Ids(users) : users[u].email = toLowerCase(users[u].email)
    /\ \A r \in Ids(emailVerifications) :
        emailVerifications[r].email = toLowerCase(emailVerifications[r].email)

\* The account of an address, whatever the case of its letters
Account(e) == findUserByEmail(users, toLowerCase(e))

\* A login that succeeds is a login to the account of the address
LoginActsOnAccount ==
    \A e \in AuthEmails, p \in AuthPasswords :
        (authorize(e, p) /\ last'.msg = "ok") => last'.user = Account(e)

\* A registration is refused when the address has an account, and stores
\* the account it creates under the lower-case address
RegisterActsOnAccount ==
    \A e \in OtpEmails :
        (registerWithDefaults(e, "pw1", "blue") /\ isEmail(e)) =>
            IF Account(e) # NULL THEN last'.status = 400 /\ UNCHANGED users
            ELSE users'[last'.id].email = toLowerCase(e)

\* verify-email finds the security question of the account of the address
VerifyEmailActsOnAccount ==
    \A e \in ResetEmails :
        verifyEmail(e) =>
            IF Account(e) # NULL /\ users[Account(e)].securityQuestion # ""
            THEN last'.status = 200 /\ last'.user = Account(e)
            ELSE last'.status = 404

\* A well-formed reset is answered 404 only when the address has no account
\* with an answer, and else acts on the account of the address
ResetActsOnAccount ==
    \A e \in ResetEmails, a \in ResetAnswers, p \in ResetPasswords :
        (resetPassword(e, a, p) /\ resetPasswordSchema(e, a, p) = "") =>
            IF Account(e) # NULL /\ users[Account(e)].securityAnswer # NoHash
            THEN last'.status \in {200, 401} /\ last'.user = Account(e)
            ELSE last'.status = 404

\* C23: every authentication operation normalizes the address: given
\* addresses that differ only in the case of their letters it acts on the
\* same account, and stored emails are always lower-case
C23_EmailsNormalized ==
    /\ []StoredEmailsLowerCase
    /\ [][/\ LoginActsOnAccount
          /\ RegisterActsOnAccount
          /\ VerifyEmailActsOnAccount
          /\ ResetActsOnAccount]_vars

\* The part of C23 that is about login
C23_LoginNormalized == [][LoginActsOnAccount]_vars

\* The part of C23 that is about the two forgot-password handlers
C23_ForgotPasswordNormalized == [][VerifyEmailActsOnAccount /\ ResetActsOnAccount]_vars

\* The part of C23 that is about the stored emails
C23_StoredLowerCase == StoredEmailsLowerCase

-----------------------------------------------------------------------------
(* Overlapping requests on one counter *)

\* The rows of the log that record a wrong password for the user
WrongPasswords(userId) ==
    {i \in 1..Len(loginAttempts) :
        loginAttempts[i].userId = userId /\ loginAttempts[i].reason = "invalid_password"}

\* C26: the read of failedLoginAttempts and the write of the incremented
\* value are not atomic: a login that overlaps others writes the counter it
\* read plus one, whatever the counter is by then, and locks by that value
C26_WritesWhatItRead ==
    [][\A q \in inflight \ inflight' :
        q.op = "authorize" =>
            /\ users'[q.id].failedLoginAttempts = q.body.failedLoginAttempts + 1
            /\ (users'[q.id].lockedUntil # NULL)
                   = (q.body.failedLoginAttempts + 1 >= MAX_LOGIN_ATTEMPTS)]_vars

\* More than MAX_LOGIN_ATTEMPTS wrong passwords were checked for an account,
\* no login is in flight, and the account is not locked: the counter is
\* below the number of failed attempts
C26_Witness ==
    \E u \in Ids(users) :
        /\ Cardinality(WrongPasswords(u)) > MAX_LOGIN_ATTEMPTS
        /\ inflight = {}
        /\ users[u].lockedUntil = NULL
        /\ users[u].failedLoginAttempts < Cardinality(WrongPasswords(u))
        /\ \A i \in 1..Len(loginAttempts) : loginAttempts[i].reason = "invalid_password"

\* The wrong guesses that were compared with the code of row r: those
\* counted in its attempts and those of the requests in flight
WrongGuesses(r) ==
    emailVerifications[r].attempts
    + Cardinality({q \in inflight : q.op = "otp/verify" /\ q.id = r /\ ~q.body.matches})

\* C27: under any interleaving of verify requests for one email a code is
\* compared with at most MAX_ATTEMPTS wrong guesses
C27_AtMostFiveGuesses ==
    \A r \in Ids(emailVerifications) : WrongGuesses(r) <= MAX_ATTEMPTS

====
